---- MODULE Spec2Model ----
(***************************************************************************)
(* Session state reconciliation engine of the vertical-tabs extension      *)
(* (src/background.js, lines 1-591): the State Store over the ephemeral    *)
(* substrate, the Session Collector, the Session Repository over the       *)
(* durable substrate, the debounced Auto-Save Scheduler, the new-session   *)
(* decision and the Session Restorer.                                      *)
(*                                                                         *)
(* Every handler is one action: it runs from its first statement to its    *)
(* last with no other handler in between.  Host events (tab created,       *)
(* removed, updated, moved) are queued by the host actions and consumed    *)
(* in order by the listeners.                                              *)
(*                                                                         *)
(* Abstractions: a tab's title is carried by the code exactly like its     *)
(* url and is never read, so tab records hold no title; Date.now() is the  *)
(* variable now, which the Tick action advances between handlers.  The     *)
(* host's identifiers (tabs, windows, timers) are only ever compared for   *)
(* equality, so a new identifier is the least one that no part of the      *)
(* state still mentions.                                                   *)
(***************************************************************************)
EXTENDS Integers, Sequences, FiniteSets, TLC

VARIABLES
    local,        \* chrome.storage.local: key -> value (durable tier)
    ephemeral,    \* chrome.storage.session: key -> value (ephemeral tier)
    windows,      \* the host's open windows, in creation order, each with its tabs
    events,       \* host events not yet delivered to their listener
    saveTimeout,  \* the handle held by debouncedAutoSave (0 = null)
    timers,       \* identifiers of the armed timers that have not fired
    now,          \* Date.now()
    last,         \* the handler that ran in the last step, and what it called
    burst,        \* observer of one burst of debouncedAutoSave calls
    running       \* the handlers that have suspended at an await, each with what
                  \* it has read and whether it has run to its end

vars == <<local, ephemeral, windows, events, saveTimeout, timers, now, last, burst,
          running>>

(***************************************************************************)
(* Bounds of the model and program constants.                              *)
(***************************************************************************)
MaxClock == 1          \* Date.now() ranges over 0..MaxClock
MaxRepoConfig == 4     \* largest maxSessions the repository runs are given
MaxTabs == 3           \* most tabs the user keeps open at once
MaxWindows == 2        \* most windows the user keeps open at once
MaxWinId == 2          \* most window identifiers the state mentions
MaxPending == 1        \* most host events the user lets queue up
MaxRestoredTabs == 4   \* most tabs open after a restore
MaxBurst == 3          \* most debouncedAutoSave calls in the observed burst
DefaultMaxSessions == 3
FreshStartMaxTabs == 2
FreshStartMinLastTabs == 3

(***************************************************************************)
(* Generic helpers.                                                        *)
(***************************************************************************)
Min(a, b) == IF a <= b THEN a ELSE b

EmptyMap == [k \in {} |-> TRUE]

\* { ...a, ...b }: the keys of both, b's value where both have the key
Spread(a, b) ==
    [k \in DOMAIN a \cup DOMAIN b |-> IF k \in DOMAIN b THEN b[k] ELSE a[k]]

\* delete m[k]
Delete(m, k) == [j \in DOMAIN m \ {k} |-> m[j]]

\* Array.prototype.slice(0, end) for an integer end
Slice(s, end) ==
    IF end >= 0 THEN SubSeq(s, 1, Min(end, Len(s)))
    ELSE IF Len(s) + end > 0 THEN SubSeq(s, 1, Len(s) + end)
    ELSE <<>>

\* String.prototype.startsWith
StartsWith(s, p) == Len(s) >= Len(p) /\ SubSeq(s, 1, Len(p)) = p

RECURSIVE SumTabs(_)
\* windows.reduce((sum, w) => sum + w.tabs.length, 0)
SumTabs(ws) ==
    IF ws = <<>> THEN 0 ELSE Len(Head(ws).tabs) + SumTabs(Tail(ws))

(***************************************************************************)
(* Session Repository (durable tier).                                      *)
(***************************************************************************)
\* result.sessions || []
getStoredSessions(store) ==
    IF "sessions" \in DOMAIN store THEN store["sessions"] ELSE <<>>

\* { maxSessions: 3, ...result.sessionConfig }
getSessionConfig(store) ==
    Spread([maxSessions |-> DefaultMaxSessions],
           IF "sessionConfig" \in DOMAIN store THEN store["sessionConfig"] ELSE EmptyMap)

\* `session-${Date.now()}`
SessionId(clock) == "session-" \o ToString(clock)

\* the record createNewSession builds
NewSession(sessionState, clock) ==
    [id         |-> SessionId(clock),
     timestamp  |-> clock,
     totalTabs  |-> SumTabs(sessionState.windows),
     windowCount |-> Len(sessionState.windows),
     windows    |-> sessionState.windows,
     groupNames |-> sessionState.groupNames]

\* createNewSession without the slice: nothing is ever dropped
createNewSessionNoTrim(store, sessionState, clock) ==
    Spread(store, [sessions |-> <<NewSession(sessionState, clock)>> \o getStoredSessions(store)])

\* createNewSession with push in place of unshift: the new session goes last
createNewSessionAppend(store, sessionState, clock) ==
    Spread(store,
        [sessions |-> Slice(getStoredSessions(store) \o <<NewSession(sessionState, clock)>>,
                            getSessionConfig(store).maxSessions)])

\* createNewSession: the durable store after the call
createNewSession(store, sessionState, clock) ==
    LET sessions == getStoredSessions(store)
        config == getSessionConfig(store)
        unshifted == <<NewSession(sessionState, clock)>> \o sessions
        trimmedSessions == Slice(unshifted, config.maxSessions)
    IN  Spread(store, [sessions |-> trimmedSessions])

\* updateCurrentSession that gives element 0 a fresh id on every call
updateCurrentSessionFreshId(store, sessionState, clock) ==
    LET sessions == getStoredSessions(store)
    IN  IF Len(sessions) = 0
        THEN createNewSession(store, sessionState, clock)
        ELSE Spread(store,
               [sessions |-> [sessions EXCEPT ![1] = NewSession(sessionState, clock)]])

\* updateCurrentSession that stores the refreshed element 0 alone
updateCurrentSessionAlone(store, sessionState, clock) ==
    LET sessions == getStoredSessions(store)
    IN  IF Len(sessions) = 0
        THEN createNewSession(store, sessionState, clock)
        ELSE Spread(store,
               [sessions |-> <<[id          |-> sessions[1].id,
                                timestamp   |-> clock,
                                totalTabs   |-> SumTabs(sessionState.windows),
                                windowCount |-> Len(sessionState.windows),
                                windows     |-> sessionState.windows,
                                groupNames  |-> sessionState.groupNames]>>])

\* updateCurrentSession: the durable store after the call
updateCurrentSession(store, sessionState, clock) ==
    LET sessions == getStoredSessions(store)
    IN  IF Len(sessions) = 0
        THEN createNewSession(store, sessionState, clock)
        ELSE Spread(store,
               [sessions |-> [sessions EXCEPT ![1] =
                   [id          |-> sessions[1].id,
                    timestamp   |-> clock,
                    totalTabs   |-> SumTabs(sessionState.windows),
                    windowCount |-> Len(sessionState.windows),
                    windows     |-> sessionState.windows,
                    groupNames  |-> sessionState.groupNames]]])

\* the repository functions updateCurrentSession runs, in call order
updateCurrentSessionCalls(store) ==
    IF Len(getStoredSessions(store)) = 0
    THEN <<"updateCurrentSession", "createNewSession">>
    ELSE <<"updateCurrentSession">>

(***************************************************************************)
(* State Store (ephemeral tier).                                           *)
(***************************************************************************)
\* getState: { tabGroupMap: result.tabGroupMap || {}, windowData: result.windowData || {} }
getState(store) ==
    [tabGroupMap |-> IF "tabGroupMap" \in DOMAIN store THEN store["tabGroupMap"] ELSE EmptyMap,
     windowData  |-> IF "windowData" \in DOMAIN store THEN store["windowData"] ELSE EmptyMap]

\* chrome.storage.session.set that merges the entries of tabGroupMap one by
\* one: entries the handler did not change keep their stored value
setStateMerging(store, newState) ==
    Spread(store,
           [k \in DOMAIN newState |->
               IF k = "tabGroupMap" THEN Spread(getState(store).tabGroupMap, newState[k])
               ELSE newState[k]])

\* setState(newState): chrome.storage.session.set merges the supplied keys
setState(store, newState) == Spread(store, newState)

(***************************************************************************)
(* Session Collector.                                                      *)
(***************************************************************************)
\* isRestorableUrl without the 'about:' prefix in its list
isRestorableUrlNoAbout(url) ==
    /\ url # ""
    /\ ~ \E prefix \in {"chrome://", "chrome-extension://", "chrome-search://",
                         "chrome-devtools://", "edge://", "moz-extension://"} :
            StartsWith(url, prefix)

\* isRestorableUrl ("" stands for a missing url)
isRestorableUrl(url) ==
    /\ url # ""
    /\ ~ \E prefix \in {"chrome://", "chrome-extension://", "chrome-search://",
                         "chrome-devtools://", "edge://", "about:", "moz-extension://"} :
            StartsWith(url, prefix)

\* a snapshot group id that ignores the map
GroupOfNone(tabGroupMap, tabId) == "ungrouped"

\* tabGroupMap[tab.id] || 'ungrouped'
GroupOf(tabGroupMap, tabId) ==
    IF tabId \in DOMAIN tabGroupMap THEN tabGroupMap[tabId] ELSE "ungrouped"

RECURSIVE MapTabs(_, _)
\* tabs.map(tab => ({ url, pinned, groupId }))
MapTabs(tabs, tabGroupMap) ==
    IF tabs = <<>> THEN <<>>
    ELSE <<[url     |-> Head(tabs).url,
            pinned  |-> Head(tabs).pinned,
            groupId |-> GroupOf(tabGroupMap, Head(tabs).id)]>>
         \o MapTabs(Tail(tabs), tabGroupMap)

\* tabs.filter(tab => isRestorableUrl(tab.url)).map(...)
SessionTabs(tabs, tabGroupMap) ==
    MapTabs(SelectSeq(tabs, LAMBDA tab : isRestorableUrl(tab.url)), tabGroupMap)

\* windowData[window.id] ? windowData[window.id].groupNames : {}
WindowGroups(windowData, windowId) ==
    IF windowId \in DOMAIN windowData THEN windowData[windowId].groupNames ELSE EmptyMap

RECURSIVE SessionWindows(_, _, _)
\* the sessionWindows array the loop of collectSessionState builds
SessionWindows(wins, tabGroupMap, windowData) ==
    IF wins = <<>> THEN <<>>
    ELSE LET sessionTabs == SessionTabs(Head(wins).tabs, tabGroupMap)
             rest == SessionWindows(Tail(wins), tabGroupMap, windowData)
         IN  IF Len(sessionTabs) > 0
             THEN <<[tabs |-> sessionTabs,
                     groupNames |-> WindowGroups(windowData, Head(wins).id)]>> \o rest
             ELSE rest

RECURSIVE AllGroupNames(_, _)
\* Object.assign(allGroupNames, windowGroups) over the windows, in order
AllGroupNames(wins, windowData) ==
    IF wins = <<>> THEN EmptyMap
    ELSE Spread(AllGroupNames(SubSeq(wins, 1, Len(wins) - 1), windowData),
                WindowGroups(windowData, wins[Len(wins)].id))

\* collectSessionState: the snapshot of the open windows
collectSessionState(store, wins, clock) ==
    LET state == getState(store)
    IN  [windows    |-> SessionWindows(wins, state.tabGroupMap, state.windowData),
         groupNames |-> AllGroupNames(wins, state.windowData),
         timestamp  |-> clock]

(***************************************************************************)
(* New-session decision.                                                   *)
(***************************************************************************)
\* shouldCreateNewSession with the tab threshold off by one (<= 3)
shouldCreateNewSessionLooseTabs(store, wins) ==
    LET sessions == getStoredSessions(store)
    IN  IF Len(sessions) = 0 THEN TRUE
        ELSE IF Len(wins) = 1 /\ SumTabs(wins) <= FreshStartMaxTabs + 1
             THEN sessions[1].totalTabs > FreshStartMinLastTabs
             ELSE FALSE

\* shouldCreateNewSession: chrome.windows.getAll() is wins, chrome.tabs.query({})
\* is every tab of every window
shouldCreateNewSession(store, wins) ==
    LET sessions == getStoredSessions(store)
    IN  IF Len(sessions) = 0 THEN TRUE
        ELSE IF Len(wins) = 1 /\ SumTabs(wins) <= FreshStartMaxTabs
             THEN sessions[1].totalTabs > FreshStartMinLastTabs
             ELSE FALSE

(***************************************************************************)
(* Auto-Save Scheduler.                                                    *)
(***************************************************************************)
\* the least identifier >= 1 outside used
LeastFree(used) ==
    CHOOSE n \in 1..(Cardinality(used) + 1) :
        n \notin used /\ \A m \in 1..(n - 1) : m \in used

\* debouncedAutoSave without the clearTimeout: the earlier timer stays armed
debouncedAutoSaveNoClear(handle, armed) ==
    LET id == LeastFree(armed)
    IN  [saveTimeout |-> id, timers |-> armed \cup {id}]

\* debouncedAutoSave: the handle and the armed timers after the call
debouncedAutoSave(handle, armed) ==
    LET cleared == IF handle # 0 THEN armed \ {handle} ELSE armed
        id == LeastFree(cleared)
    IN  [saveTimeout |-> id, timers |-> cleared \cup {id}]

\* the handler's closing call of debouncedAutoSave()
ArmAutoSave ==
    LET d == debouncedAutoSave(saveTimeout, timers)
    IN  saveTimeout' = d.saveTimeout /\ timers' = d.timers

\* autoSaveSession returns early at the totalCurrentTabs === 0 check
autoSaveSkips(sessionState) == SumTabs(sessionState.windows) = 0

\* autoSaveSession without the empty-snapshot check
autoSaveSessionNoGuard(store, sessionState, clock) ==
    [store |-> updateCurrentSession(store, sessionState, clock),
     calls |-> updateCurrentSessionCalls(store)]

\* autoSaveSession that calls createNewSession in place of updateCurrentSession
autoSaveSessionCreates(store, sessionState, clock) ==
    IF autoSaveSkips(sessionState) THEN [store |-> store, calls |-> <<>>]
    ELSE [store |-> createNewSession(store, sessionState, clock),
          calls |-> <<"createNewSession">>]

\* autoSaveSession: the durable store after the run and the repository
\* functions it ran
autoSaveSession(store, sessionState, clock) ==
    IF autoSaveSkips(sessionState) THEN [store |-> store, calls |-> <<>>]
    ELSE [store |-> updateCurrentSession(store, sessionState, clock),
          calls |-> updateCurrentSessionCalls(store)]

(***************************************************************************)
(* The host: windows, tabs and the events it raises.                       *)
(***************************************************************************)
Urls == {"https://a.example/", "chrome://newtab/"}

RECURSIVE TabsOf(_)
\* chrome.tabs.query({}): every open tab
TabsOf(wins) == IF wins = <<>> THEN <<>> ELSE Head(wins).tabs \o TabsOf(Tail(wins))

Range(seq) == {seq[i] : i \in DOMAIN seq}

OpenTabIds(wins) == {t.id : t \in Range(TabsOf(wins))}
OpenWinIds(wins) == {w.id : w \in Range(wins)}

\* a host event as the listeners receive it
Event(type, tabId, openerTabId, index, windowId, changed) ==
    [type |-> type, tabId |-> tabId, openerTabId |-> openerTabId,
     index |-> index, windowId |-> windowId, changed |-> changed]

\* tab identifiers some part of the state still mentions
UsedTabIds(wins, tabGroupMap, evs) ==
    OpenTabIds(wins) \cup DOMAIN tabGroupMap
        \cup {e.tabId : e \in Range(evs)} \cup {e.openerTabId : e \in Range(evs)}

\* window identifiers some part of the state still mentions
UsedWinIds(wins, windowData, evs) ==
    OpenWinIds(wins) \cup DOMAIN windowData \cup {e.windowId : e \in Range(evs)}

\* position (1-based) of the window holding tabId, 0 if none
WinPosOf(wins, tabId) ==
    IF \E i \in DOMAIN wins : tabId \in {t.id : t \in Range(wins[i].tabs)}
    THEN CHOOSE i \in DOMAIN wins : tabId \in {t.id : t \in Range(wins[i].tabs)}
    ELSE 0

\* position (1-based) of tabId in tabs
TabPosOf(tabs, tabId) == CHOOSE i \in DOMAIN tabs : tabs[i].id = tabId

\* number of pinned tabs: they come first in a window
PinnedCount(tabs) == Len(SelectSeq(tabs, LAMBDA t : t.pinned))

InsertAt(seq, pos, x) ==      \* x becomes element pos + 1 (pos is 0-based)
    SubSeq(seq, 1, pos) \o <<x>> \o SubSeq(seq, pos + 1, Len(seq))

RemoveAt(seq, i) == SubSeq(seq, 1, i - 1) \o SubSeq(seq, i + 1, Len(seq))

\* what the last step did: the handler, the repository functions it ran and
\* whether it answered success
ReplyArg(op, calls, ok, arg) == [op |-> op, calls |-> calls, ok |-> ok, arg |-> arg]
Reply(op, calls, ok) == ReplyArg(op, calls, ok, <<>>)
Did(op, calls) == Reply(op, calls, TRUE)

\* the user opens a tab in window number w, at 0-based index pos
HostCreateTab(w, url, openerTabId, pos) ==
    /\ SumTabs(windows) < MaxTabs
    /\ Len(events) < MaxPending
    /\ LET tabs == windows[w].tabs
           id == LeastFree(UsedTabIds(windows, getState(ephemeral).tabGroupMap, events))
           tab == [id |-> id, url |-> url, pinned |-> FALSE]
       IN  /\ pos >= PinnedCount(tabs)
           /\ openerTabId # 0 => pos = Min(Len(tabs), TabPosOf(tabs, openerTabId))
                                   \/ pos = Len(tabs)
           /\ windows' = [windows EXCEPT ![w].tabs = InsertAt(tabs, pos, tab)]
           /\ events' = Append(events,
                  Event("created", id, openerTabId, pos, windows[w].id, ""))
    /\ last' = Did("host", <<>>)
    /\ UNCHANGED <<local, ephemeral, saveTimeout, timers, now, burst, running>>

\* the user opens a window: it holds one tab
HostCreateWindow(url) ==
    /\ SumTabs(windows) < MaxTabs
    /\ Len(windows) < MaxWindows
    /\ Len(events) < MaxPending
    /\ LET state == getState(ephemeral)
           id == LeastFree(UsedTabIds(windows, state.tabGroupMap, events))
           winId == LeastFree(UsedWinIds(windows, state.windowData, events))
       IN  /\ winId <= MaxWinId
           /\ windows' = Append(windows,
                  [id |-> winId, tabs |-> <<[id |-> id, url |-> url, pinned |-> FALSE]>>])
           /\ events' = Append(events, Event("created", id, 0, 0, winId, ""))
    /\ last' = Did("host", <<>>)
    /\ UNCHANGED <<local, ephemeral, saveTimeout, timers, now, burst, running>>

\* the user closes a tab (not the last one: that ends the browser session);
\* a window closes with its last tab
HostCloseTab(tabId) ==
    /\ Len(events) < MaxPending
    /\ SumTabs(windows) > 1
    /\ LET w == WinPosOf(windows, tabId)
           tabs == RemoveAt(windows[w].tabs, TabPosOf(windows[w].tabs, tabId))
       IN  /\ windows' = IF tabs = <<>> THEN RemoveAt(windows, w)
                         ELSE [windows EXCEPT ![w].tabs = tabs]
           /\ events' = Append(events, Event("removed", tabId, 0, 0, windows[w].id, ""))
    /\ last' = Did("host", <<>>)
    /\ UNCHANGED <<local, ephemeral, saveTimeout, timers, now, burst, running>>

\* a tab changes: its url (navigation), its title, or its loading status
HostUpdateTab(tabId, changed, url) ==
    /\ Len(events) < MaxPending
    /\ LET w == WinPosOf(windows, tabId)
           i == TabPosOf(windows[w].tabs, tabId)
       IN  /\ changed = "url" => url # windows[w].tabs[i].url
           /\ changed # "url" => url = windows[w].tabs[i].url
           /\ windows' = [windows EXCEPT ![w].tabs[i].url = url]
           /\ events' = Append(events, Event("updated", tabId, 0, 0, windows[w].id, changed))
    /\ last' = Did("host", <<>>)
    /\ UNCHANGED <<local, ephemeral, saveTimeout, timers, now, burst, running>>

\* the user drags a tab to 0-based index pos of its window
HostMoveTab(tabId, pos) ==
    /\ Len(events) < MaxPending
    /\ LET w == WinPosOf(windows, tabId)
           tabs == windows[w].tabs
           i == TabPosOf(tabs, tabId)
           moved == InsertAt(RemoveAt(tabs, i), pos, tabs[i])
       IN  /\ pos < Len(tabs)
           /\ pos + 1 # i
           /\ PinnedCount(SubSeq(moved, 1, PinnedCount(moved))) = PinnedCount(moved)
           /\ windows' = [windows EXCEPT ![w].tabs = moved]
           /\ events' = Append(events, Event("moved", tabId, 0, pos, windows[w].id, ""))
    /\ last' = Did("host", <<>>)
    /\ UNCHANGED <<local, ephemeral, saveTimeout, timers, now, burst, running>>

\* Date.now() advances
Tick ==
    /\ now < MaxClock
    /\ now' = now + 1
    /\ last' = Did("tick", <<>>)
    /\ UNCHANGED <<local, ephemeral, windows, events, saveTimeout, timers, burst,
                   running>>

(***************************************************************************)
(* Listeners of the host events.                                           *)
(***************************************************************************)
\* m[k], "" standing for undefined
Lookup(m, k) == IF k \in DOMAIN m THEN m[k] ELSE ""

\* chrome.tabs.query({ windowId, index }): the tab at that 0-based index, as a
\* sequence of at most one tab
QueryTab(wins, windowId, index) ==
    LET ws == SelectSeq(wins, LAMBDA w : w.id = windowId)
    IN  IF ws # <<>> /\ index + 1 \in DOMAIN ws[1].tabs
        THEN <<ws[1].tabs[index + 1]>> ELSE <<>>

\* the tab-created listener looking at the tab to the left only
OpenerGroupIdLeftOnly(tabGroupMap, wins, newTab) ==
    LET leftTab == QueryTab(wins, newTab.windowId, newTab.index - 1)
    IN  IF newTab.index > 0 /\ leftTab # <<>>
        THEN Lookup(tabGroupMap, leftTab[1].id) ELSE ""

\* the group the tab-created listener finds for newTab
OpenerGroupId(tabGroupMap, wins, newTab) ==
    LET byOpener == IF newTab.openerTabId # 0
                    THEN Lookup(tabGroupMap, newTab.openerTabId) ELSE ""
        leftTab == QueryTab(wins, newTab.windowId, newTab.index - 1)
    IN  IF byOpener = "" /\ newTab.index > 0
        THEN (IF leftTab # <<>> THEN Lookup(tabGroupMap, leftTab[1].id) ELSE "")
        ELSE byOpener

\* the tab-created listener, up to its closing debouncedAutoSave()
onCreated(store, eph, wins, newTab, clock) ==
    LET tabGroupMap == getState(eph).tabGroupMap
        create == shouldCreateNewSession(store, wins)
        sessionState == collectSessionState(eph, wins, clock)
        openerGroupId == OpenerGroupId(tabGroupMap, wins, newTab)
    IN  [local |-> IF create THEN createNewSession(store, sessionState, clock) ELSE store,
         ephemeral |-> IF openerGroupId # ""
                       THEN setState(eph, [tabGroupMap |->
                                Spread(tabGroupMap, [k \in {newTab.tabId} |-> openerGroupId])])
                       ELSE eph,
         calls |-> IF create THEN <<"createNewSession">> ELSE <<>>]

\* the tab-removed listener that writes the map back without the delete
onRemovedNoDelete(eph, tabId) ==
    setState(eph, [tabGroupMap |-> getState(eph).tabGroupMap])

\* the tab-removed listener, up to its closing debouncedAutoSave()
onRemoved(eph, tabId) ==
    setState(eph, [tabGroupMap |-> Delete(getState(eph).tabGroupMap, tabId)])

\* the tab-updated listener's test: changeInfo.url || changeInfo.title
onUpdatedSaves(changed) == changed \in {"url", "title"}

OnCreated ==
    /\ events # <<>> /\ Head(events).type = "created"
    /\ LET r == onCreated(local, ephemeral, windows, Head(events), now)
       IN  /\ local' = r.local
           /\ ephemeral' = r.ephemeral
           /\ last' = ReplyArg("onCreated", r.calls, TRUE,
                               [tabId |-> Head(events).tabId,
                                openerTabId |-> Head(events).openerTabId])
    /\ ArmAutoSave
    /\ events' = Tail(events)
    /\ UNCHANGED <<windows, now, burst, running>>

OnRemoved ==
    /\ events # <<>> /\ Head(events).type = "removed"
    /\ ephemeral' = onRemoved(ephemeral, Head(events).tabId)
    /\ ArmAutoSave
    /\ events' = Tail(events)
    /\ last' = ReplyArg("onRemoved", <<>>, TRUE,
          [tabId |-> Head(events).tabId,
           had |-> Head(events).tabId \in DOMAIN getState(ephemeral).tabGroupMap])
    /\ UNCHANGED <<local, windows, now, burst, running>>

OnUpdated ==
    /\ events # <<>> /\ Head(events).type = "updated"
    /\ IF onUpdatedSaves(Head(events).changed)
       THEN ArmAutoSave
       ELSE UNCHANGED <<saveTimeout, timers>>
    /\ events' = Tail(events)
    /\ last' = Did("onUpdated", <<>>)
    /\ UNCHANGED <<local, ephemeral, windows, now, burst, running>>

OnMoved ==
    /\ events # <<>> /\ Head(events).type = "moved"
    /\ ArmAutoSave
    /\ events' = Tail(events)
    /\ last' = Did("onMoved", <<>>)
    /\ UNCHANGED <<local, ephemeral, windows, now, burst, running>>

\* the timer armed by debouncedAutoSave expires: autoSaveSession runs
AutoSaveTimerFires(t) ==
    /\ t \in timers
    /\ timers' = timers \ {t}
    /\ LET r == autoSaveSession(local, collectSessionState(ephemeral, windows, now), now)
       IN  /\ local' = r.store
           /\ last' = Did("autoSaveSession", r.calls)
    /\ UNCHANGED <<ephemeral, windows, events, saveTimeout, now, running>>

(***************************************************************************)
(* Session Restorer.                                                       *)
(***************************************************************************)
Grouped(groupId) == groupId # "" /\ groupId # "ungrouped"

Singleton(k, v) == [j \in {k} |-> v]

BlankOr(url) == IF url = "" THEN "about:blank" ELSE url

\* the inner loop pass that records a group for every created tab, 'ungrouped'
\* included
CreateTabMapsEvery(acc, winPos, tab) ==
    LET id == LeastFree(UsedTabIds(acc.windows, acc.tabGroupMap, acc.events))
        cur == acc.windows[winPos].tabs
        pos == IF tab.pinned THEN PinnedCount(cur) ELSE Len(cur)
    IN  [acc EXCEPT
            !.windows[winPos].tabs = InsertAt(cur, pos,
                [id |-> id, url |-> BlankOr(tab.url), pinned |-> tab.pinned]),
            !.tabGroupMap = Spread(@, Singleton(id, tab.groupId)),
            !.events = Append(@,
                Event("created", id, 0, pos, acc.windows[winPos].id, ""))]

\* one pass of the inner loop of restoreSession: chrome.tabs.create({ windowId,
\* url, pinned }) and the group bookkeeping.  The host puts a pinned tab after
\* the pinned tabs of the window and any other tab last.
CreateTab(acc, winPos, tab) ==
    LET id == LeastFree(UsedTabIds(acc.windows, acc.tabGroupMap, acc.events))
        cur == acc.windows[winPos].tabs
        pos == IF tab.pinned THEN PinnedCount(cur) ELSE Len(cur)
    IN  [acc EXCEPT
            !.windows[winPos].tabs = InsertAt(cur, pos,
                [id |-> id, url |-> BlankOr(tab.url), pinned |-> tab.pinned]),
            !.tabGroupMap = IF Grouped(tab.groupId)
                            THEN Spread(@, Singleton(id, tab.groupId)) ELSE @,
            !.events = Append(@,
                Event("created", id, 0, pos, acc.windows[winPos].id, ""))]

\* the host rejects the next creation of this restore
NextAttemptFails(acc) == (Len(acc.attempts) + 1) \in acc.failing

\* acc with one more creation attempt on record
Attempted(acc, kind, tab) ==
    [acc EXCEPT !.attempts = Append(@, [kind |-> kind, window |-> acc.pass, tab |-> tab,
                                        ok |-> ~NextAttemptFails(acc)])]

RECURSIVE RestoreTabs(_, _, _, _)
\* for (let i = 1; i < windowData.tabs.length; i++): tabs i.. (1-based here);
\* a rejected chrome.tabs.create is caught and the loop goes on
RestoreTabs(acc, winPos, tabs, i) ==
    IF i > Len(tabs) THEN acc
    ELSE RestoreTabs(IF NextAttemptFails(acc) THEN Attempted(acc, "tab", i)
                     ELSE CreateTab(Attempted(acc, "tab", i), winPos, tabs[i]),
                     winPos, tabs, i + 1)

\* the outer loop pass with the spread reversed: on a clash the session-wide
\* name is kept
RestoreWindowSessionNamesWin(acc, session, windowSnap) ==
    LET pass == [acc EXCEPT !.pass = @ + 1]
    IN  IF Len(windowSnap.tabs) = 0 THEN pass
        ELSE IF NextAttemptFails(pass) THEN Attempted(pass, "window", 1)
        ELSE LET firstTab == windowSnap.tabs[1]
                 newWindowId == LeastFree(UsedWinIds(acc.windows, acc.windowData, acc.events))
                 firstTabId == LeastFree(UsedTabIds(acc.windows, acc.tabGroupMap, acc.events))
                 created ==
                    [Attempted(pass, "window", 1) EXCEPT
                        !.windows = Append(@,
                            [id |-> newWindowId,
                             tabs |-> <<[id |-> firstTabId, url |-> BlankOr(firstTab.url),
                                         pinned |-> FALSE]>>]),
                        !.windowData = Spread(@, Singleton(newWindowId,
                            [groupNames |-> Spread(windowSnap.groupNames,
                                                   session.groupNames)])),
                        !.tabGroupMap = IF Grouped(firstTab.groupId)
                                        THEN Spread(@, Singleton(firstTabId, firstTab.groupId))
                                        ELSE @,
                        !.events = Append(@,
                            Event("created", firstTabId, 0, 0, newWindowId, ""))]
             IN  RestoreTabs(created, Len(created.windows), windowSnap.tabs, 2)

\* one pass of the outer loop of restoreSession: chrome.windows.create({ url,
\* state }) gives a window holding one tab, not pinned; a rejected creation is
\* caught and ends the pass
RestoreWindow(acc, session, windowSnap) ==
    LET pass == [acc EXCEPT !.pass = @ + 1]
    IN  IF Len(windowSnap.tabs) = 0 THEN pass
        ELSE IF NextAttemptFails(pass) THEN Attempted(pass, "window", 1)
        ELSE LET firstTab == windowSnap.tabs[1]
                 newWindowId == LeastFree(UsedWinIds(acc.windows, acc.windowData, acc.events))
                 firstTabId == LeastFree(UsedTabIds(acc.windows, acc.tabGroupMap, acc.events))
                 created ==
                    [Attempted(pass, "window", 1) EXCEPT
                        !.windows = Append(@,
                            [id |-> newWindowId,
                             tabs |-> <<[id |-> firstTabId, url |-> BlankOr(firstTab.url),
                                         pinned |-> FALSE]>>]),
                        !.windowData = Spread(@, Singleton(newWindowId,
                            [groupNames |-> Spread(session.groupNames,
                                                   windowSnap.groupNames)])),
                        !.tabGroupMap = IF Grouped(firstTab.groupId)
                                        THEN Spread(@, Singleton(firstTabId, firstTab.groupId))
                                        ELSE @,
                        !.events = Append(@,
                            Event("created", firstTabId, 0, 0, newWindowId, ""))]
             IN  RestoreTabs(created, Len(created.windows), windowSnap.tabs, 2)

RECURSIVE RestoreWindowsAborting(_, _, _)
\* the outer loop of restoreSession without its try/catch: the first rejected
\* window creation ends the loop
RestoreWindowsAborting(acc, session, windowSnaps) ==
    IF windowSnaps = <<>> THEN acc
    ELSE LET next == RestoreWindow(acc, session, Head(windowSnaps))
             rejected == /\ Len(next.attempts) > Len(acc.attempts)
                         /\ next.attempts[Len(acc.attempts) + 1].kind = "window"
                         /\ ~next.attempts[Len(acc.attempts) + 1].ok
         IN  IF rejected THEN next
             ELSE RestoreWindowsAborting(next, session, Tail(windowSnaps))

RECURSIVE RestoreWindows(_, _, _)
\* for (const windowData of session.windows)
RestoreWindows(acc, session, windowSnaps) ==
    IF windowSnaps = <<>> THEN acc
    ELSE RestoreWindows(RestoreWindow(acc, session, Head(windowSnaps)),
                        session, Tail(windowSnaps))

\* restoreSession(session) for a session with windows, the host rejecting the
\* creations numbered in failing: the host's windows and events and the
\* ephemeral store after it, and the creations it attempted
restoreSessionUnder(eph, wins, evs, session, failing) ==
    LET state == getState(eph)
        acc == RestoreWindows(
                  [windows |-> wins, windowData |-> state.windowData,
                   tabGroupMap |-> state.tabGroupMap, events |-> evs,
                   attempts |-> <<>>, failing |-> failing, pass |-> 0],
                  session, session.windows)
    IN  [windows |-> acc.windows,
         events |-> acc.events,
         ephemeral |-> setState(eph, [tabGroupMap |-> acc.tabGroupMap,
                                      windowData |-> acc.windowData]),
         attempts |-> acc.attempts]

\* restoreSession(session) for a session with windows, every host call
\* succeeding
restoreSession(eph, wins, evs, session) ==
    restoreSessionUnder(eph, wins, evs, session, {})

\* restoreSession without the session.windows.length === 0 test
restoreSessionThrowsNoLength(chosen) ==
    \/ chosen = <<>>
    \/ "windows" \notin DOMAIN chosen[1]

\* restoreSession throws before its loop: !session || !session.windows ||
\* session.windows.length === 0 (chosen is a sequence of at most one session)
restoreSessionThrows(chosen) ==
    \/ chosen = <<>>
    \/ "windows" \notin DOMAIN chosen[1]
    \/ Len(chosen[1].windows) = 0

(***************************************************************************)
(* Requests of the UI layer (chrome.runtime.onMessage).                    *)
(***************************************************************************)
GroupIds == {"g1", "g2"}
GroupNames == {"Work"}

\* action 'saveSession'
saveSession(store, sessionState, clock) ==
    IF SumTabs(sessionState.windows) = 0
    THEN [store |-> store, calls |-> <<>>, ok |-> FALSE]
    ELSE [store |-> updateCurrentSession(store, sessionState, clock),
          calls |-> updateCurrentSessionCalls(store), ok |-> TRUE]

SaveSessionMsg ==
    /\ LET r == saveSession(local, collectSessionState(ephemeral, windows, now), now)
       IN  /\ local' = r.store
           /\ last' = Reply("saveSession", r.calls, r.ok)
    /\ UNCHANGED <<ephemeral, windows, events, saveTimeout, timers, now, burst,
            running>>

\* action 'restoreSession' that takes the most recent session whatever the
\* sessionId
SessionToRestoreMostRecent(store, sessionId) ==
    LET sessions == getStoredSessions(store)
    IN  IF Len(sessions) = 0 THEN <<>> ELSE <<sessions[1]>>

\* action 'restoreSession': the session the request selects, as a sequence of
\* at most one session ("" stands for no sessionId)
SessionToRestore(store, sessionId) ==
    LET sessions == getStoredSessions(store)
        found == SelectSeq(sessions, LAMBDA x : x.id = sessionId)
    IN  IF Len(sessions) = 0 THEN <<>>
        ELSE IF sessionId # "" THEN (IF found = <<>> THEN <<>> ELSE <<found[1]>>)
        ELSE <<sessions[1]>>

RestoreSessionMsg(sessionId) ==
    LET chosen == SessionToRestore(local, sessionId)
    IN  IF chosen = <<>> \/ Len(chosen[1].windows) = 0
        THEN /\ last' = ReplyArg("restoreSession", <<>>, FALSE, sessionId)
             /\ UNCHANGED <<local, ephemeral, windows, events, saveTimeout, timers,
                            now, burst, running>>
        ELSE /\ SumTabs(windows) + chosen[1].totalTabs <= MaxRestoredTabs
             /\ LET r == restoreSession(ephemeral, windows, events, chosen[1])
                IN  /\ windows' = r.windows
                    /\ events' = r.events
                    /\ ephemeral' = r.ephemeral
             /\ last' = ReplyArg("restoreSession", <<>>, TRUE, sessionId)
             /\ UNCHANGED <<local, saveTimeout, timers, now, burst, running>>

\* action 'updateMultipleTabGroups'
updateMultipleTabGroups(eph, tabIds, newGroupId) ==
    setState(eph, [tabGroupMap |->
        Spread(getState(eph).tabGroupMap, [t \in tabIds |-> newGroupId])])

UpdateMultipleTabGroupsMsg(tabIds, newGroupId) ==
    /\ ephemeral' = updateMultipleTabGroups(ephemeral, tabIds, newGroupId)
    /\ ArmAutoSave
    /\ last' = Did("updateMultipleTabGroups", <<>>)
    /\ UNCHANGED <<local, windows, events, now, burst, running>>

\* action 'addTabToNewGroup' with windowId, groupId and groupName given
addTabToNewGroup(eph, windowId, tabId, groupId, groupName) ==
    LET state == getState(eph)
        windowData == IF windowId \in DOMAIN state.windowData THEN state.windowData
                      ELSE Spread(state.windowData,
                                  Singleton(windowId, [groupNames |-> EmptyMap]))
    IN  setState(eph,
          [tabGroupMap |-> Spread(state.tabGroupMap, Singleton(tabId, groupId)),
           windowData  |-> [windowData EXCEPT ![windowId].groupNames =
                               Spread(@, Singleton(groupId, groupName))]])

AddTabToNewGroupMsg(windowId, tabId, groupId, groupName) ==
    /\ ephemeral' = addTabToNewGroup(ephemeral, windowId, tabId, groupId, groupName)
    /\ ArmAutoSave
    /\ last' = Did("addTabToNewGroup", <<>>)
    /\ UNCHANGED <<local, windows, events, now, burst, running>>

\* action 'updateSessionConfig' that stores the config and trims nothing
updateSessionConfigNoTrim(store, config) ==
    Spread(store, [sessionConfig |-> config])

\* action 'updateSessionConfig' (config is a record that may lack maxSessions)
updateSessionConfig(store, config) ==
    LET saved == Spread(store, [sessionConfig |-> config])
        sessions == getStoredSessions(saved)
    IN  IF "maxSessions" \in DOMAIN config /\ Len(sessions) > config.maxSessions
        THEN Spread(saved, [sessions |-> Slice(sessions, config.maxSessions)])
        ELSE saved

UpdateSessionConfigMsg(config) ==
    /\ local' = updateSessionConfig(local, config)
    /\ last' = ReplyArg("updateSessionConfig", <<>>, TRUE,
                        [config |-> config, had |-> Len(getStoredSessions(local))])
    /\ UNCHANGED <<ephemeral, windows, events, saveTimeout, timers, now, burst,
            running>>

(***************************************************************************)
(* The repository driven directly: createNewSession and                    *)
(* updateCurrentSession called with snapshots drawn from RepoSnapshots,    *)
(* the limit set through updateSessionConfig.                              *)
(***************************************************************************)
SnapTab(url, pinned, groupId) == [url |-> url, pinned |-> pinned, groupId |-> groupId]

RepoSnapshots ==
    {[windows |-> <<[tabs |-> <<SnapTab("https://a.example/", FALSE, "ungrouped")>>,
                     groupNames |-> EmptyMap]>>,
      groupNames |-> EmptyMap, timestamp |-> 0],
     [windows |-> <<[tabs |-> <<SnapTab("https://a.example/", TRUE, "g1"),
                                SnapTab("https://b.example/", FALSE, "ungrouped")>>,
                     groupNames |-> [g1 |-> "Work"]],
                    [tabs |-> <<SnapTab("https://b.example/", FALSE, "ungrouped")>>,
                     groupNames |-> EmptyMap]>>,
      groupNames |-> [g1 |-> "Work"], timestamp |-> 0]}

RepoConfigs == {[maxSessions |-> m] : m \in 1..MaxRepoConfig}

NoBurst == [calls |-> 0, runs |-> 0, byLast |-> TRUE]

CreateNewSessionCall(sessionState) ==
    /\ local' = createNewSession(local, sessionState, now)
    /\ last' = ReplyArg("createNewSession", <<"createNewSession">>, TRUE,
                        [snapshot |-> sessionState, had |-> Len(getStoredSessions(local))])
    /\ UNCHANGED <<ephemeral, windows, events, saveTimeout, timers, now, burst,
            running>>

UpdateCurrentSessionCall(sessionState) ==
    /\ local' = updateCurrentSession(local, sessionState, now)
    /\ last' = ReplyArg("updateCurrentSession", updateCurrentSessionCalls(local), TRUE,
                        [snapshot |-> sessionState, had |-> Len(getStoredSessions(local)),
                         repeat |-> /\ last.op = "updateCurrentSession"
                                    /\ last.arg.snapshot = sessionState
                                    /\ last.arg.had >= 1])
    /\ UNCHANGED <<ephemeral, windows, events, saveTimeout, timers, now, burst,
            running>>

InitRepo ==
    /\ local \in {EmptyMap} \cup {[sessionConfig |-> c] : c \in RepoConfigs}
    /\ ephemeral = EmptyMap
    /\ windows = <<>>
    /\ events = <<>>
    /\ saveTimeout = 0
    /\ timers = {}
    /\ now = 0
    /\ last = Did("init", <<>>)
    /\ burst = NoBurst
    /\ running = {}

NextRepo ==
    \/ \E sessionState \in RepoSnapshots : CreateNewSessionCall(sessionState)
    \/ \E sessionState \in RepoSnapshots : UpdateCurrentSessionCall(sessionState)
    \/ \E config \in RepoConfigs : UpdateSessionConfigMsg(config)
    \/ Tick

SpecRepo == InitRepo /\ [][NextRepo]_vars

\* C1: after every createNewSession call (and every other repository
\* operation) the stored session list is no longer than the stored or default
\* maxSessions
C1_LengthWithinMaxSessions ==
    Len(getStoredSessions(local)) <= getSessionConfig(local).maxSessions

\* C1 witness: a createNewSession call has run on a full repository
C1_Witness ==
    /\ last.op = "createNewSession"
    /\ last.arg.had = getSessionConfig(local).maxSessions
    /\ Len(getStoredSessions(local)) = getSessionConfig(local).maxSessions
    /\ "sessionConfig" \in DOMAIN local

\* C2: createNewSession on s1..sn with limit m stores [new, s1, ..., s_min(n, m-1)]:
\* the new session first, the old ones after it in their order, the oldest dropped
C2_CreateNewPrependsAndTrims ==
    [][last'.op = "createNewSession" =>
        LET old == getStoredSessions(local)
            new == getStoredSessions(local')
            kept == Min(Len(old), getSessionConfig(local).maxSessions - 1)
        IN  /\ Len(new) = kept + 1
            /\ new[1].windows = last'.arg.snapshot.windows
            /\ new[1].groupNames = last'.arg.snapshot.groupNames
            /\ new[1].id = SessionId(now)
            /\ \A i \in 1..kept : new[i + 1] = old[i]]_vars

\* C2 witness: m = 2, n = 2 and the call has run, two different sessions stored
C2_Witness ==
    /\ last.op = "createNewSession"
    /\ last.arg.had = 2
    /\ getSessionConfig(local).maxSessions = 2
    /\ Len(getStoredSessions(local)) = 2
    /\ getStoredSessions(local)[1].windows # getStoredSessions(local)[2].windows

\* a durable store with the timestamp of its newest session blanked
WithoutTimestamp(store) ==
    LET sessions == getStoredSessions(store)
    IN  IF Len(sessions) = 0 THEN store
        ELSE Spread(store, [sessions |-> [sessions EXCEPT ![1].timestamp = 0]])

\* C11: updateCurrentSession called again with the same snapshot, at any later
\* time, on the repository a first call on a non-empty repository left, changes
\* nothing but the timestamp of element 0: length, element 0's id, windows,
\* totalTabs, windowCount and groupNames, and every older element, are equal
C11_UpdateCurrentIdempotent ==
    [][(last'.op = "updateCurrentSession" /\ last'.arg.had >= 1) =>
          /\ \A clock \in now..(MaxClock + 1) :
                LET twice == updateCurrentSession(local', last'.arg.snapshot, clock)
                IN  /\ WithoutTimestamp(twice) = WithoutTimestamp(local')
                    /\ getStoredSessions(twice)[1].timestamp = clock
          /\ last'.arg.repeat => WithoutTimestamp(local') = WithoutTimestamp(local)
          /\ Len(getStoredSessions(local')) = last'.arg.had]_vars

\* C11 witness: the second of two calls in succession with the same snapshot
\* has run on a repository of two sessions
C11_Witness ==
    /\ last.op = "updateCurrentSession"
    /\ last.arg.repeat
    /\ Len(getStoredSessions(local)) = 2
    /\ getStoredSessions(local)[1].windows = last.arg.snapshot.windows
    /\ getStoredSessions(local)[1].id # SessionId(now)

\* C32: updateCurrentSession on a non-empty repository keeps the id of element
\* 0, every element at index >= 1 and the number of sessions; on an empty
\* repository it stores what createNewSession stores, exactly one session
C32_UpdateCurrentFrame ==
    [][last'.op = "updateCurrentSession" =>
          LET old == getStoredSessions(local)
              new == getStoredSessions(local')
          IN  IF Len(old) >= 1
              THEN /\ Len(new) = Len(old)
                   /\ new[1].id = old[1].id
                   /\ \A i \in 2..Len(old) : new[i] = old[i]
                   /\ getSessionConfig(local') = getSessionConfig(local)
              ELSE /\ local' = createNewSession(local, last'.arg.snapshot, now)
                   /\ Len(new) = 1
                   /\ new[1].id = SessionId(now)
                   /\ new[1].windows = last'.arg.snapshot.windows]_vars

\* C32 witness: the call has run on a repository of three sessions whose
\* element 0 held another snapshot
C32_Witness ==
    /\ last.op = "updateCurrentSession"
    /\ last.arg.had = 3
    /\ ~last.arg.repeat
    /\ getStoredSessions(local)[1].windows # getStoredSessions(local)[2].windows
    /\ getStoredSessions(local)[1].id # SessionId(now)

\* C32 witness: the call has run on an empty repository
C32_WitnessEmpty ==
    /\ last.op = "updateCurrentSession"
    /\ last.arg.had = 0
    /\ Len(getStoredSessions(local)) = 1

(***************************************************************************)
(* The extension in a running browser.  The service worker starts with     *)
(* whatever an earlier browser session left in the durable store, an empty *)
(* ephemeral store and the windows the browser opened at launch.           *)
(***************************************************************************)
\* a session of 4 tabs in one window, left by an earlier browser session
RichSession ==
    [id |-> "session-rich", timestamp |-> 0, totalTabs |-> 4, windowCount |-> 1,
     windows |-> <<[tabs |-> <<SnapTab("https://a.example/", FALSE, "g1"),
                               SnapTab("https://a.example/", FALSE, "g1"),
                               SnapTab("https://a.example/", FALSE, "ungrouped"),
                               SnapTab("https://a.example/", FALSE, "ungrouped")>>,
                    groupNames |-> [g1 |-> "Work"]]>>,
     groupNames |-> [g1 |-> "Work"]]

\* an older session of 1 tab
SmallSession ==
    [id |-> "session-small", timestamp |-> 0, totalTabs |-> 1, windowCount |-> 1,
     windows |-> <<[tabs |-> <<SnapTab("https://a.example/", FALSE, "ungrouped")>>,
                    groupNames |-> EmptyMap]>>,
     groupNames |-> EmptyMap]

BootStores ==
    {EmptyMap,
     [sessions |-> <<RichSession, SmallSession>>]}

BootWindows ==
    {<<[id |-> 1, tabs |-> <<[id |-> 1, url |-> url, pinned |-> FALSE]>>]>> : url \in Urls}

Init ==
    /\ local \in BootStores
    /\ ephemeral = EmptyMap
    /\ windows \in BootWindows
    /\ events = <<>>
    /\ saveTimeout = 0
    /\ timers = {}
    /\ now = 1
    /\ last = Did("init", <<>>)
    /\ burst = NoBurst
    /\ running = {}

TimerFires == \E t \in timers : AutoSaveTimerFires(t) /\ UNCHANGED burst

Next ==
    \/ \E w \in DOMAIN windows, url \in Urls :
          HostCreateTab(w, url, 0, Len(windows[w].tabs))
    \/ \E url \in Urls : HostCreateWindow(url)
    \/ \E tabId \in OpenTabIds(windows) : HostCloseTab(tabId)
    \/ \E tabId \in OpenTabIds(windows), changed \in {"url", "title", "status"},
          url \in Urls : HostUpdateTab(tabId, changed, url)
    \/ \E tabId \in OpenTabIds(windows), pos \in 0..MaxTabs : HostMoveTab(tabId, pos)
    \/ OnCreated
    \/ OnRemoved
    \/ OnUpdated
    \/ OnMoved
    \/ TimerFires
    \/ SaveSessionMsg

Spec == Init /\ [][Next]_vars

Stored == getStoredSessions(local)

\* C3: every session held in the durable repository has totalTabs >= 1
C3_NoEmptySessionStored ==
    \A i \in DOMAIN Stored : Stored[i].totalTabs >= 1

\* the snapshot a handler running now would collect
Collected == collectSessionState(ephemeral, windows, now)

\* C4: an auto-save run whose snapshot has no restorable tab calls neither
\* updateCurrentSession nor createNewSession and leaves the durable store as
\* it was
C4_AutoSaveSkipsEmptySnapshot ==
    [][(last'.op = "autoSaveSession" /\ SumTabs(Collected.windows) = 0) =>
          (last'.calls = <<>> /\ local' = local)]_vars

\* C4 witness: an auto-save run has skipped while sessions are stored and no
\* open tab is restorable
C4_Witness ==
    /\ last.op = "autoSaveSession"
    /\ last.calls = <<>>
    /\ SumTabs(Collected.windows) = 0
    /\ Len(Stored) >= 2

\* the session the earlier browser session left newest is stored, windows intact
RichStored ==
    \E i \in DOMAIN Stored :
        Stored[i].id = RichSession.id /\ Stored[i].windows = RichSession.windows

\* C5: after a restart (one window, at most 2 tabs, newest session S of more
\* than 3 tabs, maxSessions >= 2) S stays stored with its windows unchanged
\* through every later tab event, listener run and auto-save run (a manual
\* save is not among them)
C5_RestartKeepsLastSession ==
    [][(RichStored /\ last'.op # "saveSession") => RichStored']_vars

\* C8: an auto-save run on a repository holding a session keeps the number of
\* sessions and every session's id, changes nothing beyond element 0 and does
\* not call createNewSession
C8_AutoSaveOnlyRefreshesCurrent ==
    [][(last'.op = "autoSaveSession" /\ Len(Stored) >= 1) =>
          LET new == getStoredSessions(local')
          IN  /\ Len(new) = Len(Stored)
              /\ \A i \in DOMAIN Stored : new[i].id = Stored[i].id
              /\ \A i \in 2..Len(Stored) : new[i] = Stored[i]
              /\ \A i \in DOMAIN last'.calls : last'.calls[i] # "createNewSession"]_vars

\* C8 witness: an auto-save run has replaced the windows of element 0 of a
\* repository of two sessions
C8_Witness ==
    /\ last.op = "autoSaveSession"
    /\ last.calls = <<"updateCurrentSession">>
    /\ Len(Stored) = 2
    /\ Stored[1].id = RichSession.id
    /\ Stored[1].windows # RichSession.windows
    /\ Stored[1].timestamp = now

\* C10: the tab-created listener creates a session exactly when no session is
\* stored, or one window is open with at most 2 tabs in all and the newest
\* stored session has totalTabs > 3; otherwise it leaves the repository alone
C10_NewSessionDecision ==
    [][last'.op = "onCreated" =>
          LET fresh == \/ Len(Stored) = 0
                       \/ /\ Len(windows) = 1
                          /\ Len(TabsOf(windows)) <= 2
                          /\ Stored[1].totalTabs > 3
              new == getStoredSessions(local')
          IN  /\ fresh <=> shouldCreateNewSession(local, windows)
              /\ fresh => /\ last'.calls = <<"createNewSession">>
                          /\ Len(new) >= 1
                          /\ new[1].windows = Collected.windows
                          /\ \A i \in 2..Len(new) : new[i] = Stored[i - 1]
              /\ ~fresh => last'.calls = <<>> /\ local' = local]_vars

\* C10 witness: the listener has run with one window of 3 tabs open and a
\* newest session of more than 3 tabs, and created nothing
C10_Witness ==
    /\ last.op = "onCreated"
    /\ last.calls = <<>>
    /\ Len(windows) = 1
    /\ Len(TabsOf(windows)) = 3
    /\ Len(Stored) >= 1
    /\ Stored[1].totalTabs > 3

(***************************************************************************)
(* The State Store under the group requests of the UI and the tab-created  *)
(* and tab-removed listeners.  Tabs open anywhere in a window, with or     *)
(* without an opener; every tab shows the same page.  An auto-save run     *)
(* reads the State Store and never writes it: no run is taken here.        *)
(***************************************************************************)
GroupPage == "https://a.example/"

InitGroups ==
    /\ local = [sessions |-> <<SmallSession>>]
    /\ ephemeral = EmptyMap
    /\ windows = <<[id |-> 1, tabs |-> <<[id |-> 1, url |-> GroupPage, pinned |-> FALSE]>>]>>
    /\ events = <<>>
    /\ saveTimeout = 0
    /\ timers = {}
    /\ now = 1
    /\ last = Did("init", <<>>)
    /\ burst = NoBurst
    /\ running = {}

NextGroups ==
    \/ \E w \in DOMAIN windows, pos \in 0..MaxTabs :
          \E openerTabId \in {0} \cup {t.id : t \in Range(windows[w].tabs)} :
             pos <= Len(windows[w].tabs) /\ HostCreateTab(w, GroupPage, openerTabId, pos)
    \/ HostCreateWindow(GroupPage)
    \/ \E tabId \in OpenTabIds(windows) : HostCloseTab(tabId)
    \/ OnCreated
    \/ OnRemoved
    \/ \E tabId \in OpenTabIds(windows), groupId \in GroupIds :
          UpdateMultipleTabGroupsMsg({tabId}, groupId)
    \/ \E windowId \in OpenWinIds(windows), tabId \in OpenTabIds(windows),
          groupId \in GroupIds, groupName \in GroupNames :
          AddTabToNewGroupMsg(windowId, tabId, groupId, groupName)

SpecGroups == InitGroups /\ [][NextGroups]_vars

\* C7: when the tab-removed listener for tab t has run, t has no entry in the
\* stored TabGroupMap, every other entry is as before and WindowData is as before
C7_RemovedTabLeavesMap ==
    [][last'.op = "onRemoved" =>
          LET t == Head(events).tabId
              before == getState(ephemeral)
              after == getState(ephemeral')
          IN  /\ t \notin DOMAIN after.tabGroupMap
              /\ DOMAIN after.tabGroupMap = DOMAIN before.tabGroupMap \ {t}
              /\ \A k \in DOMAIN after.tabGroupMap :
                    after.tabGroupMap[k] = before.tabGroupMap[k]
              /\ after.windowData = before.windowData]_vars

\* C7 witness: the listener has run for a grouped tab while another tab is
\* grouped and a window has named groups
C7_Witness ==
    /\ last.op = "onRemoved"
    /\ last.arg.had
    /\ last.arg.tabId \notin DOMAIN getState(ephemeral).tabGroupMap
    /\ getState(ephemeral).tabGroupMap # EmptyMap
    /\ getState(ephemeral).windowData # EmptyMap

(***************************************************************************)
(* One burst of debouncedAutoSave calls: every call after the first comes  *)
(* while no timer has expired yet.  burst counts the calls and the         *)
(* autoSaveSession runs and notes whether each run was started by the      *)
(* timer armed last.  An armed timer that is not cleared expires.          *)
(***************************************************************************)
DebounceWindows ==
    BootWindows \cup
    {<<[id |-> 1, tabs |-> <<[id |-> 1, url |-> u1, pinned |-> FALSE],
                             [id |-> 2, url |-> u2, pinned |-> FALSE]>>]>> :
        u1 \in Urls, u2 \in Urls}

InitDebounce ==
    /\ local \in BootStores
    /\ ephemeral = EmptyMap
    /\ windows \in DebounceWindows
    /\ events = <<>>
    /\ saveTimeout = 0
    /\ timers = {}
    /\ now = 0
    /\ last = Did("init", <<>>)
    /\ burst = NoBurst
    /\ running = {}

BurstCall ==
    /\ burst.calls < MaxBurst
    /\ burst.runs = 0
    /\ ArmAutoSave
    /\ burst' = [burst EXCEPT !.calls = @ + 1]
    /\ last' = Did("debouncedAutoSave", <<>>)
    /\ UNCHANGED <<local, ephemeral, windows, events, now, running>>

BurstTimerFires ==
    \E t \in timers :
        /\ AutoSaveTimerFires(t)
        /\ burst' = [burst EXCEPT !.runs = @ + 1, !.byLast = @ /\ t = saveTimeout]

NextDebounce == BurstCall \/ BurstTimerFires \/ Tick

SpecDebounce == InitDebounce /\ [][NextDebounce]_vars /\ WF_vars(BurstTimerFires)

\* C9: a burst of n >= 1 calls leads to exactly one autoSaveSession run, started
\* by the timer the last call armed: at most one timer is ever armed, it is the
\* one saveTimeout holds, no second run follows, and the one run does come
C9_BurstRunsOnce ==
    /\ [](burst.runs <= 1)
    /\ [](burst.runs = 1 => (burst.byLast /\ timers = {}))
    /\ []((burst.calls >= 1 /\ burst.runs = 0) => timers = {saveTimeout})
    /\ ((burst.calls >= 1) ~> (burst.runs = 1))

\* C9 witness: a burst of MaxBurst calls has ended in its run
C9_Witness ==
    /\ burst.calls = MaxBurst
    /\ burst.runs = 1
    /\ last.op = "autoSaveSession"

(***************************************************************************)
(* Save and restore.  The browser holds one window of one or two tabs,     *)
(* pinned tabs first, some of them in group g1; the user saves the session *)
(* and restores the newest one; the listeners and the auto-save run on the *)
(* tabs the restore creates.                                               *)
(***************************************************************************)
RestoreHosts ==
    {<<[id |-> 1, tabs |-> tabs]>> :
        tabs \in {ts \in UNION {[1..n -> [id : 1..2, url : Urls, pinned : BOOLEAN]] : n \in 1..2} :
                    /\ \A i \in DOMAIN ts : ts[i].id = i
                    /\ \A i \in DOMAIN ts : ts[i].pinned => \A j \in 1..i : ts[j].pinned}}

RestoreStores(wins) ==
    {EmptyMap} \cup
    {[tabGroupMap |-> [t \in grouped |-> "g1"],
      windowData |-> Singleton(1, [groupNames |-> [g1 |-> "Work"]])] :
        grouped \in SUBSET OpenTabIds(wins)}

InitRestore ==
    /\ local = EmptyMap
    /\ windows \in RestoreHosts
    /\ ephemeral \in RestoreStores(windows)
    /\ events = <<>>
    /\ saveTimeout = 0
    /\ timers = {}
    /\ now = 1
    /\ last = Did("init", <<>>)
    /\ burst = NoBurst
    /\ running = {}

NextRestore ==
    \/ SaveSessionMsg
    \/ RestoreSessionMsg("")
    \/ OnCreated
    \/ TimerFires

SpecRestore == InitRestore /\ [][NextRestore]_vars

\* how many tabs of each (url, pinned, groupId) a window snapshot holds
TabBag(tabs) ==
    [x \in Range(tabs) |-> Cardinality({j \in DOMAIN tabs : tabs[j] = x})]

\* C6: the windows a successful restoreSession creates, collected again, hold
\* the tabs of the restored snapshot: as many restorable tabs, each with its
\* pinned flag and its group
C6_RoundTrip ==
    [][(last'.op = "restoreSession" /\ last'.ok) =>
          LET session == SessionToRestore(local, last'.arg)[1]
              created == SubSeq(windows', Len(windows) + 1, Len(windows'))
              again == collectSessionState(ephemeral', created, now).windows
          IN  /\ SumTabs(again) = session.totalTabs
              /\ Len(again) = Len(session.windows)
              /\ \A i \in DOMAIN again :
                    TabBag(again[i].tabs) = TabBag(session.windows[i].tabs)]_vars

\* C6 without the pinned flags: the restored windows hold the snapshot's tabs
\* with their urls and groups
C6_RoundTripGroupsOnly ==
    [][(last'.op = "restoreSession" /\ last'.ok) =>
          LET session == SessionToRestore(local, last'.arg)[1]
              created == SubSeq(windows', Len(windows) + 1, Len(windows'))
              again == collectSessionState(ephemeral', created, now).windows
              Plain(tabs) == [j \in DOMAIN tabs |-> [tabs[j] EXCEPT !.pinned = FALSE]]
          IN  /\ SumTabs(again) = session.totalTabs
              /\ Len(again) = Len(session.windows)
              /\ \A i \in DOMAIN again :
                    TabBag(Plain(again[i].tabs)) = TabBag(Plain(session.windows[i].tabs))]_vars

(***************************************************************************)
(* Migration of the single-session storage of earlier versions.            *)
(***************************************************************************)
\* oldData.savedSession && !newData.sessions
migrates(store) == "savedSession" \in DOMAIN store /\ "sessions" \notin DOMAIN store

\* a || b for timestamps: 0 and a missing value are falsy
OrElse(a, b) == IF a # 0 THEN a ELSE b

\* store[key], 0 standing for undefined
NumberAt(store, key) == IF key \in DOMAIN store THEN store[key] ELSE 0

\* the record migrateFromOldStorage builds from the legacy data
MigratedSession(store, clock) ==
    LET legacySession == store.savedSession
        lastSaved == NumberAt(store, "lastSaved")
    IN  [id          |-> SessionId(OrElse(lastSaved, clock)),
         timestamp   |-> OrElse(lastSaved, OrElse(NumberAt(legacySession, "timestamp"), clock)),
         totalTabs   |-> SumTabs(legacySession.windows),
         windowCount |-> Len(legacySession.windows),
         windows     |-> legacySession.windows,
         groupNames  |-> EmptyMap]

\* migrateFromOldStorage that leaves the legacy keys in the store
migrateFromOldStorageKeepsLegacy(store, clock) ==
    IF migrates(store)
    THEN Spread(store, [sessions |-> <<MigratedSession(store, clock)>>])
    ELSE store

\* migrateFromOldStorage that does not look for a sessions key
migrateFromOldStorageOverwrites(store, clock) ==
    IF "savedSession" \in DOMAIN store
    THEN Delete(Delete(Spread(store, [sessions |-> <<MigratedSession(store, clock)>>]),
                       "savedSession"), "lastSaved")
    ELSE store

\* migrateFromOldStorage: the durable store after the call
migrateFromOldStorage(store, clock) ==
    IF migrates(store)
    THEN Delete(Delete(Spread(store, [sessions |-> <<MigratedSession(store, clock)>>]),
                       "savedSession"), "lastSaved")
    ELSE store

\* chrome.runtime.onStartup / onInstalled
MigrateFromOldStorage ==
    /\ local' = migrateFromOldStorage(local, now)
    /\ last' = ReplyArg("migrateFromOldStorage", <<>>, TRUE,
                        [legacy |-> "savedSession" \in DOMAIN local,
                         hadSessions |-> "sessions" \in DOMAIN local,
                         again |-> last.op = "migrateFromOldStorage" /\ last.arg.legacy
                                     /\ ~last.arg.hadSessions])
    /\ UNCHANGED <<ephemeral, windows, events, saveTimeout, timers, now, burst,
            running>>

\* what an earlier version stored under savedSession
LegacySessions ==
    {[windows |-> <<[tabs |-> <<SnapTab("https://a.example/", FALSE, "g1"),
                                SnapTab("https://b.example/", TRUE, "ungrouped")>>,
                     groupNames |-> [g1 |-> "Work"]],
                    [tabs |-> <<SnapTab("https://b.example/", FALSE, "ungrouped")>>,
                     groupNames |-> EmptyMap]>>,
      groupNames |-> [g1 |-> "Work"], timestamp |-> 5],
     [windows |-> <<[tabs |-> <<SnapTab("https://a.example/", FALSE, "ungrouped")>>,
                     groupNames |-> EmptyMap]>>,
      groupNames |-> EmptyMap]}

LegacyStamps == {7}

\* the durable store at the first start of this version: a fresh install, a
\* store this version already wrote, or the legacy keys of an earlier version
LegacyStores ==
    {EmptyMap, [sessions |-> <<SmallSession>>]}
        \cup {[savedSession |-> s] : s \in LegacySessions}
        \cup {[savedSession |-> s, lastSaved |-> t] : s \in LegacySessions, t \in LegacyStamps}

InitMigrate ==
    /\ local \in LegacyStores
    /\ ephemeral = EmptyMap
    /\ windows = <<>>
    /\ events = <<>>
    /\ saveTimeout = 0
    /\ timers = {}
    /\ now = 0
    /\ last = Did("init", <<>>)
    /\ burst = NoBurst
    /\ running = {}

NextMigrate ==
    \/ MigrateFromOldStorage
    \/ \E sessionState \in RepoSnapshots : CreateNewSessionCall(sessionState)
    \/ Tick

SpecMigrate == InitMigrate /\ [][NextMigrate]_vars

\* C12: when the durable store holds savedSession and no sessions key, after
\* migrateFromOldStorage the sessions key holds exactly one session, with the
\* legacy windows, totalTabs and windowCount computed from them and empty
\* groupNames, and the savedSession and lastSaved keys are gone
C12_MigrationWrapsLegacy ==
    [][(last'.op = "migrateFromOldStorage" /\ "savedSession" \in DOMAIN local
            /\ "sessions" \notin DOMAIN local) =>
          /\ "sessions" \in DOMAIN local'
          /\ Len(local'.sessions) = 1
          /\ local'.sessions[1].windows = local.savedSession.windows
          /\ local'.sessions[1].totalTabs = SumTabs(local.savedSession.windows)
          /\ local'.sessions[1].windowCount = Len(local.savedSession.windows)
          /\ local'.sessions[1].groupNames = EmptyMap
          /\ "savedSession" \notin DOMAIN local'
          /\ "lastSaved" \notin DOMAIN local']_vars

\* C12 witness: a store with savedSession and lastSaved has been migrated
C12_Witness ==
    /\ last.op = "migrateFromOldStorage"
    /\ last.arg.legacy /\ ~last.arg.hadSessions
    /\ Len(getStoredSessions(local)) = 1
    /\ local.sessions[1].id = "session-7"
    /\ local.sessions[1].totalTabs = 3

\* C13: migrateFromOldStorage leaves the durable store as it was when a
\* sessions key exists (a completed migration included) or no savedSession
\* exists
C13_MigrationNoOp ==
    [][(last'.op = "migrateFromOldStorage"
            /\ ("sessions" \in DOMAIN local \/ "savedSession" \notin DOMAIN local)) =>
          local' = local]_vars

\* C13 witness: migrateFromOldStorage has run a second time, directly after the
\* run that migrated
C13_Witness ==
    /\ last.op = "migrateFromOldStorage"
    /\ last.arg.again
    /\ Len(getStoredSessions(local)) = 1

\* C13 witness of the other case: the run found savedSession next to a
\* sessions key and left both
C13_WitnessBothKeys ==
    /\ last.op = "migrateFromOldStorage"
    /\ last.arg.legacy /\ last.arg.hadSessions
    /\ "savedSession" \in DOMAIN local

(***************************************************************************)
(* The collector applied to windows whose tabs show urls of every reserved *)
(* scheme, ordinary urls and no url at all.                                *)
(***************************************************************************)
\* urls the collector has to leave out: one per reserved prefix
ReservedUrls ==
    {"chrome://settings", "chrome-extension://abc/page.html", "chrome-search://local-ntp",
     "chrome-devtools://devtools/inspector.html", "edge://settings", "about:blank",
     "moz-extension://x"}

\* urls the collector has to keep; the last two hold a reserved prefix, but not
\* at the start, or only a part of one
OrdinaryUrls ==
    {"https://a.example/", "file:///tmp/a.txt", "https://a.example/?u=chrome://settings",
     "chrome"}

CollectUrls == ReservedUrls \cup OrdinaryUrls \cup {""}

CollectHosts ==
    {<<[id |-> 1, tabs |-> tabs]>> :
        tabs \in {ts \in UNION {[1..n -> [id : 1..2, url : CollectUrls, pinned : {FALSE}]] :
                                  n \in 1..2} :
                    \A i \in DOMAIN ts : ts[i].id = i}}

InitCollect ==
    /\ local = EmptyMap
    /\ windows \in CollectHosts
    /\ ephemeral = EmptyMap
    /\ events = <<>>
    /\ saveTimeout = 0
    /\ timers = {}
    /\ now = 1
    /\ last = Did("init", <<>>)
    /\ burst = NoBurst
    /\ running = {}

CollectSessionStateCall ==
    /\ last' = ReplyArg("collectSessionState", <<>>, TRUE,
                        collectSessionState(ephemeral, windows, now))
    /\ UNCHANGED <<local, ephemeral, windows, events, saveTimeout, timers, now, burst,
            running>>

NextCollect ==
    \/ CollectSessionStateCall
    \/ SaveSessionMsg

SpecCollect == InitCollect /\ [][NextCollect]_vars

\* the urls of a sequence of tabs, in order
UrlsOf(tabs) == [i \in DOMAIN tabs |-> tabs[i].url]

\* C14: the snapshot collectSessionState gives holds, window by window and in
\* order, exactly the tabs whose url is present and starts with none of the
\* reserved prefixes; a window left with no tab is not in the snapshot
C14_CollectKeepsRestorableTabs ==
    last.op = "collectSessionState" =>
        LET kept == [w \in DOMAIN windows |->
                        SelectSeq(UrlsOf(windows[w].tabs), LAMBDA u : u \in OrdinaryUrls)]
            nonEmpty == SelectSeq(kept, LAMBDA us : us # <<>>)
            snapshot == last.arg.windows
        IN  /\ Len(snapshot) = Len(nonEmpty)
            /\ \A w \in DOMAIN snapshot : UrlsOf(snapshot[w].tabs) = nonEmpty[w]
            /\ \A w \in DOMAIN snapshot : \A i \in DOMAIN snapshot[w].tabs :
                   /\ snapshot[w].tabs[i].url \notin ReservedUrls \cup {""}
                   /\ isRestorableUrl(snapshot[w].tabs[i].url)

\* C14 witness: a window holding an about: tab and an https tab was collected
\* and the snapshot holds the https tab alone
C14_Witness ==
    /\ last.op = "collectSessionState"
    /\ UrlsOf(windows[1].tabs) = <<"about:blank", "https://a.example/">>
    /\ Len(last.arg.windows) = 1
    /\ UrlsOf(last.arg.windows[1].tabs) = <<"https://a.example/">>

(***************************************************************************)
(* Session settings.  The popup's Save button validates the number typed   *)
(* and sends updateSessionConfig; the handler of the service worker takes  *)
(* the message from any page of the extension.                             *)
(***************************************************************************)
\* parseInt(maxSessionsInput.value): a number, or NaN
ParsedInputs ==
    {[nan |-> TRUE, value |-> 0]} \cup {[nan |-> FALSE, value |-> v] : v \in {0, 1, 2, 10, 11}}

\* handleSaveConfig of the popup: its validation, then the message
HandleSaveConfig(input) ==
    IF input.nan \/ input.value < 1 \/ input.value > 10
    THEN /\ last' = ReplyArg("handleSaveConfig", <<>>, FALSE, input)
         /\ UNCHANGED <<local, ephemeral, windows, events, saveTimeout, timers, now, burst,
            running>>
    ELSE UpdateSessionConfigMsg([maxSessions |-> input.value])

\* the config objects a message can carry: a limit below, inside and above
\* 1..10, or no maxSessions at all
MessageConfigs == {[maxSessions |-> m] : m \in {0, 1, 2, 11}} \cup {EmptyMap}

InitConfig ==
    /\ local = EmptyMap
    /\ ephemeral = EmptyMap
    /\ windows = <<>>
    /\ events = <<>>
    /\ saveTimeout = 0
    /\ timers = {}
    /\ now = 0
    /\ last = Did("init", <<>>)
    /\ burst = NoBurst
    /\ running = {}

NextConfig ==
    \/ \E sessionState \in RepoSnapshots : CreateNewSessionCall(sessionState)
    \/ \E config \in MessageConfigs : UpdateSessionConfigMsg(config)
    \/ \E input \in ParsedInputs : HandleSaveConfig(input)

SpecConfig == InitConfig /\ [][NextConfig]_vars

\* maxSessions is present and in 1..10
ValidConfig(config) == "maxSessions" \in DOMAIN config /\ config.maxSessions \in 1..10

\* C15: updateSessionConfig answers success:false to a config whose maxSessions
\* is missing or outside 1..10 and leaves the durable store as it was
C15_InvalidConfigRejected ==
    [][(last'.op = "updateSessionConfig" /\ ~ValidConfig(last'.arg.config)) =>
          (~last'.ok /\ local' = local)]_vars

\* C16: after updateSessionConfig with a valid maxSessions = m the stored
\* sessions are the first min(n, m) of the n stored before, in order; with
\* n <= m they are unchanged
C16_ValidConfigTrims ==
    [][(last'.op = "updateSessionConfig" /\ ValidConfig(last'.arg.config)) =>
          LET old == getStoredSessions(local)
              m == last'.arg.config.maxSessions
          IN  /\ getStoredSessions(local') = SubSeq(old, 1, Min(Len(old), m))
              /\ Len(old) <= m => getStoredSessions(local') = old
              /\ getSessionConfig(local').maxSessions = m]_vars

\* C16 witness: three sessions were stored, two of them different, and the
\* limit was set to 2
C16_Witness ==
    /\ last.op = "updateSessionConfig"
    /\ last.arg.had = 3
    /\ last.arg.config = [maxSessions |-> 2]
    /\ Len(getStoredSessions(local)) = 2
    /\ getStoredSessions(local)[1] # getStoredSessions(local)[2]

(***************************************************************************)
(* Requests under host failures.  Every handler of the session requests    *)
(* runs in a try block whose catch answers success:false; restoreSession   *)
(* catches a rejected window or tab creation itself.  A request names the  *)
(* host call that rejects, if any.                                         *)
(***************************************************************************)
\* a handler whose catch block only logs
RespondNoCatch(threw, answer) ==
    IF threw THEN <<>> ELSE <<answer>>

\* the responses a handler sends: the catch block's when the try block threw,
\* the try block's own otherwise
Respond(threw, answer) ==
    IF threw THEN <<[success |-> FALSE, error |-> TRUE]>> ELSE <<answer>>

Success == [success |-> TRUE, error |-> FALSE]
Failure == [success |-> FALSE, error |-> TRUE]

\* what the request saw and what it answered
Answered(op, threw, responses, detail) ==
    ReplyArg(op, <<>>, responses # <<>> /\ responses[1].success,
             [threw |-> threw, responses |-> responses, detail |-> detail])


\* restoreSession(session) from its first line to its last: whether it threw,
\* and what it left.  broken names the state store call the host rejects.
restoreSessionRun(eph, wins, evs, chosen, failing, broken) ==
    IF restoreSessionThrows(chosen) \/ broken = "getState"
    THEN [threw |-> TRUE, windows |-> wins, events |-> evs, ephemeral |-> eph,
          attempts |-> <<>>, wrote |-> FALSE]
    ELSE LET r == restoreSessionUnder(eph, wins, evs, chosen[1], failing)
         IN  [threw |-> broken = "setState", windows |-> r.windows, events |-> r.events,
              ephemeral |-> IF broken = "setState" THEN eph ELSE r.ephemeral,
              attempts |-> r.attempts, wrote |-> broken # "setState"]

\* the number of tabs restoreSession may create for chosen
TabsToRestore(chosen) ==
    IF restoreSessionThrows(chosen) THEN 0 ELSE SumTabs(chosen[1].windows)

\* restoreSession(session) called directly
RestoreSessionCall(chosen, failing, broken) ==
    /\ SumTabs(windows) + TabsToRestore(chosen) <= MaxRestoredTabs
    /\ LET r == restoreSessionRun(ephemeral, windows, events, chosen, failing, broken)
       IN  /\ windows' = r.windows
           /\ events' = r.events
           /\ ephemeral' = r.ephemeral
           /\ last' = ReplyArg("restoreSession()", <<>>, ~r.threw,
                               [threw |-> r.threw, responses |-> <<>>,
                                detail |-> [chosen |-> chosen, attempts |-> r.attempts,
                                            failing |-> failing, broken |-> broken,
                                            wrote |-> r.wrote]])
    /\ UNCHANGED <<local, saveTimeout, timers, now, burst, running>>

\* action 'restoreSession' under host failures
RestoreSessionRequest(sessionId, failing, broken) ==
    LET chosen == SessionToRestore(local, sessionId)
    IN  IF broken = "getStoredSessions"
        THEN /\ last' = Answered("restoreSession", TRUE, Respond(TRUE, Success),
                                 [sessionId |-> sessionId, chosen |-> <<>>,
                                  attempts |-> <<>>, failing |-> failing,
                                  broken |-> broken, wrote |-> FALSE])
             /\ UNCHANGED <<local, ephemeral, windows, events, saveTimeout, timers,
                            now, burst, running>>
        ELSE IF chosen = <<>>
        THEN /\ last' = Answered("restoreSession", FALSE, <<Failure>>,
                                 [sessionId |-> sessionId, chosen |-> chosen,
                                  attempts |-> <<>>, failing |-> failing,
                                  broken |-> broken, wrote |-> FALSE])
             /\ UNCHANGED <<local, ephemeral, windows, events, saveTimeout, timers,
                            now, burst, running>>
        ELSE /\ SumTabs(windows) + TabsToRestore(chosen) <= MaxRestoredTabs
             /\ LET r == restoreSessionRun(ephemeral, windows, events, chosen, failing, broken)
                IN  /\ windows' = r.windows
                    /\ events' = r.events
                    /\ ephemeral' = r.ephemeral
                    /\ last' = Answered("restoreSession", r.threw, Respond(r.threw, Success),
                                        [sessionId |-> sessionId, chosen |-> chosen,
                                         attempts |-> r.attempts,
                                         failing |-> failing, broken |-> broken,
                                         wrote |-> r.wrote])
             /\ UNCHANGED <<local, saveTimeout, timers, now, burst, running>>

\* action 'saveSession' under host failures: every write is the last host call
\* of the handler, so a rejected call leaves the durable store as it was
SaveSessionRequest(broken) ==
    /\ LET r == saveSession(local, collectSessionState(ephemeral, windows, now), now)
       IN  /\ local' = IF broken THEN local ELSE r.store
           /\ last' = Answered("saveSession", broken,
                               Respond(broken, IF r.ok THEN Success ELSE Failure), <<>>)
    /\ UNCHANGED <<ephemeral, windows, events, saveTimeout, timers, now, burst,
            running>>

\* action 'getStoredSessions' under host failures
GetStoredSessionsRequest(broken) ==
    /\ last' = Answered("getStoredSessions", broken, Respond(broken, Success),
                        IF broken THEN <<>>
                        ELSE [i \in DOMAIN getStoredSessions(local) |->
                                 [id |-> getStoredSessions(local)[i].id,
                                  totalTabs |-> getStoredSessions(local)[i].totalTabs]])
    /\ UNCHANGED <<local, ephemeral, windows, events, saveTimeout, timers, now, burst,
            running>>

\* action 'getSessionConfig' under host failures
GetSessionConfigRequest(broken) ==
    /\ last' = Answered("getSessionConfig", broken, Respond(broken, Success),
                        IF broken THEN <<>> ELSE getSessionConfig(local))
    /\ UNCHANGED <<local, ephemeral, windows, events, saveTimeout, timers, now, burst,
            running>>

\* the host calls of action 'updateSessionConfig', in order: set sessionConfig,
\* get sessions, set sessions (made only when there is something to trim)
ConfigCalls(store, config) ==
    IF updateSessionConfig(store, config) = updateSessionConfigNoTrim(store, config)
    THEN 2 ELSE 3

\* action 'updateSessionConfig' under host failures: failAt numbers the host
\* call that rejects, 0 for none
UpdateSessionConfigRequest(config, failAt) ==
    /\ failAt <= ConfigCalls(local, config)
    /\ local' = IF failAt = 0 THEN updateSessionConfig(local, config)
                ELSE IF failAt = 1 THEN local
                ELSE updateSessionConfigNoTrim(local, config)
    /\ last' = Answered("updateSessionConfig", failAt # 0, Respond(failAt # 0, Success),
                        [config |-> config, failAt |-> failAt])
    /\ UNCHANGED <<ephemeral, windows, events, saveTimeout, timers, now, burst,
            running>>

\* a stored session of two windows, three tabs
TwoWindowSession ==
    [id |-> "session-two", timestamp |-> 0, totalTabs |-> 3, windowCount |-> 2,
     windows |-> <<[tabs |-> <<SnapTab("https://a.example/", FALSE, "g1"),
                               SnapTab("https://b.example/", FALSE, "ungrouped")>>,
                    groupNames |-> [g1 |-> "Work"]],
                   [tabs |-> <<SnapTab("https://b.example/", FALSE, "ungrouped")>>,
                    groupNames |-> EmptyMap]>>,
     groupNames |-> [g1 |-> "Work"]]

\* a stored session without windows: what the tab-created listener stores
\* when no open tab is restorable
EmptySession ==
    [id |-> "session-empty", timestamp |-> 0, totalTabs |-> 0, windowCount |-> 0,
     windows |-> <<>>, groupNames |-> EmptyMap]

\* a stored session of one window, three tabs
ThreeTabSession ==
    [id |-> "session-three", timestamp |-> 0, totalTabs |-> 3, windowCount |-> 1,
     windows |-> <<[tabs |-> <<SnapTab("https://a.example/", TRUE, "ungrouped"),
                               SnapTab("https://b.example/", FALSE, "g1"),
                               SnapTab("https://a.example/", FALSE, "g1")>>,
                    groupNames |-> [g1 |-> "Work"]]>>,
     groupNames |-> [g1 |-> "Work"]]

\* a stored session of two windows that name group g1 differently; the
\* session-wide names are those of the window collected last
RenamedSession ==
    [id |-> "session-renamed", timestamp |-> 0, totalTabs |-> 2, windowCount |-> 2,
     windows |-> <<[tabs |-> <<SnapTab("https://a.example/", FALSE, "g1")>>,
                    groupNames |-> [g1 |-> "Home"]],
                   [tabs |-> <<SnapTab("https://b.example/", FALSE, "g2")>>,
                    groupNames |-> [g1 |-> "Work", g2 |-> "Play"]]>>,
     groupNames |-> [g1 |-> "Work", g2 |-> "Play"]]

RequestStores ==
    {EmptyMap, [sessions |-> <<EmptySession>>],
     [sessions |-> <<TwoWindowSession, EmptySession>>],
     [sessions |-> <<ThreeTabSession>>],
     [sessions |-> <<ThreeTabSession, TwoWindowSession>>],
     [sessions |-> <<RenamedSession>>]}

\* the sessionId of a request: none, stored ones, an unknown one
RequestIds == {"", "session-two", "session-empty", "session-none"}

\* what restoreSession can be called with: nothing, a stored session, an
\* object without windows
CallArguments(store) ==
    {<<>>, <<[id |-> "session-none"]>>}
        \cup {<<getStoredSessions(store)[i]>> : i \in DOMAIN getStoredSessions(store)}

\* the creations of one restore the host may reject
FailingSets == SUBSET (1..3)

InitRequests ==
    /\ local \in RequestStores
    /\ windows = <<[id |-> 1, tabs |-> <<[id |-> 1, url |-> "https://a.example/",
                                          pinned |-> FALSE]>>]>>
    /\ ephemeral \in {EmptyMap, [tabGroupMap |-> Singleton(1, "g1"),
                                 windowData |-> Singleton(1, [groupNames |-> [g1 |-> "Work"]])]}
    /\ events = <<>>
    /\ saveTimeout = 0
    /\ timers = {}
    /\ now = 1
    /\ last = Did("init", <<>>)
    /\ burst = NoBurst
    /\ running = {}

\* the failures a restore request is tried under: none, a rejected window, a
\* rejected tab
RequestFailingSets == {{}, {1}, {2}}

NextRequests ==
    \/ \E sessionId \in RequestIds, failing \in RequestFailingSets,
          broken \in {"none", "getStoredSessions", "getState", "setState"} :
            RestoreSessionRequest(sessionId, failing, broken)
    \/ \E broken \in BOOLEAN : SaveSessionRequest(broken)
    \/ \E broken \in BOOLEAN : GetStoredSessionsRequest(broken)
    \/ \E broken \in BOOLEAN : GetSessionConfigRequest(broken)
    \/ \E config \in {[maxSessions |-> 1]}, failAt \in 0..3 :
            UpdateSessionConfigRequest(config, failAt)

SpecRequests == InitRequests /\ [][NextRequests]_vars

(***************************************************************************)
(* restoreSession called with every kind of argument, the host rejecting   *)
(* any subset of the creations it asks for.                                *)
(***************************************************************************)
NextRestoreCalls ==
    \/ \E chosen \in CallArguments(local), failing \in FailingSets,
          broken \in {"none", "getState", "setState"} :
            RestoreSessionCall(chosen, failing, broken)
    \/ \E sessionId \in RequestIds, failing \in FailingSets :
            RestoreSessionRequest(sessionId, failing, "none")

SpecRestoreCalls == InitRequests /\ [][NextRestoreCalls]_vars

\* the step was a restoreSession call or request whose state store calls the
\* host served
RestoreStep(op, arg) ==
    op \in {"restoreSession()", "restoreSession"} /\ arg.detail.broken = "none"

\* C17: restoreSession given no session, or a session without windows, fails:
\* it throws (the request answers success:false), attempts no window or tab
\* creation and leaves the host's windows and the State Store as they were
C17_InvalidSessionFailsEarly ==
    [][(/\ RestoreStep(last'.op, last'.arg)
        /\ LET chosen == last'.arg.detail.chosen
           IN  \/ chosen = <<>>
               \/ "windows" \notin DOMAIN chosen[1]
               \/ chosen[1].windows = <<>>) =>
          /\ ~last'.ok
          /\ last'.op = "restoreSession()" => last'.arg.threw
          /\ last'.arg.detail.attempts = <<>>
          /\ ~last'.arg.detail.wrote
          /\ windows' = windows
          /\ events' = events
          /\ ephemeral' = ephemeral]_vars

\* C17 witness: restoreSession was called with a stored session that has no
\* windows, and threw
C17_Witness ==
    /\ last.op = "restoreSession()"
    /\ last.arg.detail.chosen = <<EmptySession>>
    /\ last.arg.threw
    /\ last.arg.detail.failing = {}

\* the attempts of kind on snapshot window w, as the tab indices they were for
AttemptsFor(log, kind, w) ==
    LET mine == SelectSeq(log, LAMBDA a : a.kind = kind /\ a.window = w)
    IN  [i \in DOMAIN mine |-> mine[i].tab]

\* C18: whatever creations the host rejects, restoreSession attempts a window
\* for every window snapshot with a tab, attempts every further tab of each
\* window it got, and completes with its State Store write
C18_RestoreNeverAborts ==
    [][(/\ RestoreStep(last'.op, last'.arg)
        /\ last'.arg.detail.chosen # <<>>
        /\ "windows" \in DOMAIN last'.arg.detail.chosen[1]
        /\ last'.arg.detail.chosen[1].windows # <<>>) =>
          LET session == last'.arg.detail.chosen[1]
              log == last'.arg.detail.attempts
              created == {i \in DOMAIN log : log[i].ok}
          IN  /\ last'.ok /\ ~last'.arg.threw
              /\ last'.arg.detail.wrote
              /\ {"tabGroupMap", "windowData"} \subseteq DOMAIN ephemeral'
              /\ \A w \in DOMAIN session.windows :
                    LET tabs == session.windows[w].tabs
                        got == \E i \in created : log[i].kind = "window" /\ log[i].window = w
                    IN  /\ AttemptsFor(log, "window", w) = IF tabs = <<>> THEN <<>> ELSE <<1>>
                        /\ AttemptsFor(log, "tab", w) =
                              IF got THEN [i \in 1..(Len(tabs) - 1) |-> i + 1] ELSE <<>>
              /\ \A i \in DOMAIN log : log[i].ok <=> i \notin last'.arg.detail.failing
              /\ SumTabs(windows') = SumTabs(windows) + Cardinality(created)]_vars

\* C18 witness: the host rejected the second tab of the first window; both
\* windows were created and the restore completed
C18_Witness ==
    /\ last.op = "restoreSession()"
    /\ last.ok
    /\ last.arg.detail.chosen = <<TwoWindowSession>>
    /\ last.arg.detail.failing = {2}
    /\ Len(last.arg.detail.attempts) = 3
    /\ Len(windows) = 3

\* C18 witness of a tab after a rejected tab: the host rejected the second of
\* three tabs and the third was still created
C18_WitnessTabAfterRejected ==
    /\ last.op = "restoreSession()"
    /\ last.ok
    /\ last.arg.detail.chosen = <<ThreeTabSession>>
    /\ last.arg.detail.failing = {2}
    /\ Len(last.arg.detail.attempts) = 3
    /\ Len(windows[2].tabs) = 2

\* C18 witness of a rejected window: the first window was rejected, the second
\* was still created
C18_WitnessWindowRejected ==
    /\ last.op = "restoreSession()"
    /\ last.ok
    /\ last.arg.detail.chosen = <<TwoWindowSession>>
    /\ last.arg.detail.failing = {1}
    /\ Len(last.arg.detail.attempts) = 2
    /\ Len(windows) = 2

\* C19: every saveSession, restoreSession, getStoredSessions, getSessionConfig
\* and updateSessionConfig request gets exactly one response, whichever host
\* call rejects; when the handler's try block threw the response is
\* { success: false, error }
C19_ExactlyOneResponse ==
    [][last'.op \in {"saveSession", "restoreSession", "getStoredSessions",
                     "getSessionConfig", "updateSessionConfig"} =>
          /\ Len(last'.arg.responses) = 1
          /\ last'.arg.threw =>
                (~last'.arg.responses[1].success /\ last'.arg.responses[1].error)]_vars

\* C19 witness: a restoreSession request created its windows, the closing
\* State Store write was rejected, and the one response says failure
C19_Witness ==
    /\ last.op = "restoreSession"
    /\ last.arg.threw
    /\ last.arg.detail.broken = "setState"
    /\ Len(windows) > 1
    /\ last.arg.responses = <<Failure>>

\* C20: when the tab-created listener runs for a tab whose opener is mapped to
\* group g in the stored TabGroupMap, the new tab is mapped to g when the
\* listener has run, and no other entry of the map has changed
C20_NewTabJoinsOpenerGroup ==
    [][(/\ last'.op = "onCreated"
        /\ last'.arg.openerTabId # 0
        /\ Lookup(getState(ephemeral).tabGroupMap, last'.arg.openerTabId) # "") =>
          LET before == getState(ephemeral).tabGroupMap
              after == getState(ephemeral').tabGroupMap
          IN  /\ Lookup(after, last'.arg.tabId) = Lookup(before, last'.arg.openerTabId)
              /\ \A t \in (DOMAIN before \cup DOMAIN after) \ {last'.arg.tabId} :
                    Lookup(after, t) = Lookup(before, t)]_vars

\* C20 witness: a tab was opened at the end of its window from a tab of group
\* g2 that is not its left neighbour, the listener has run and the new tab is
\* in g2, its left neighbour is not
C20_Witness ==
    /\ last.op = "onCreated"
    /\ last.arg.openerTabId # 0
    /\ Lookup(getState(ephemeral).tabGroupMap, last.arg.openerTabId) = "g2"
    /\ Lookup(getState(ephemeral).tabGroupMap, last.arg.tabId) = "g2"
    /\ \E w \in DOMAIN windows : \E i \in 2..Len(windows[w].tabs) :
          /\ windows[w].tabs[i].id = last.arg.tabId
          /\ windows[w].tabs[i - 1].id # last.arg.openerTabId
          /\ Lookup(getState(ephemeral).tabGroupMap, windows[w].tabs[i - 1].id) # "g2"

\* C21: when the tab-created listener runs for a tab whose opener has no entry
\* in the stored TabGroupMap, the new tab has no entry when the listener has
\* run
C21_NewTabOfUngroupedStaysUngrouped ==
    [][(/\ last'.op = "onCreated"
        /\ last'.arg.openerTabId # 0
        /\ Lookup(getState(ephemeral).tabGroupMap, last'.arg.openerTabId) = ""
        /\ Lookup(getState(ephemeral).tabGroupMap, last'.arg.tabId) = "") =>
          Lookup(getState(ephemeral').tabGroupMap, last'.arg.tabId) = ""]_vars

(***************************************************************************)
(* Creating and deleting groups.  A request names a window (0 standing for *)
(* no windowId), a group id and a name ("" standing for none).             *)
(***************************************************************************)
\* `group-${Date.now()}`
GroupIdAt(clock) == "group-" \o ToString(clock)

\* windowData[windowId] exists and registers groupId
Registered(windowData, windowId, groupId) ==
    /\ windowId \in DOMAIN windowData
    /\ groupId \in DOMAIN windowData[windowId].groupNames

\* action 'createGroup' that does not look for the id first
createGroupOverwrites(eph, windowId, groupId, groupName, clock) ==
    LET windowData == getState(eph).windowData
        newGroupId == IF groupId # "" THEN groupId ELSE GroupIdAt(clock)
        name == IF groupName # "" THEN groupName ELSE "New Group"
        known == IF windowId \in DOMAIN windowData THEN windowData
                 ELSE Spread(windowData, Singleton(windowId, [groupNames |-> EmptyMap]))
    IN  IF windowId = 0 THEN [ephemeral |-> eph, ok |-> FALSE, saves |-> FALSE]
        ELSE [ephemeral |-> setState(eph,
                  [windowData |-> [known EXCEPT ![windowId].groupNames =
                                      Spread(@, Singleton(newGroupId, name))]]),
              ok |-> TRUE, saves |-> TRUE]

\* action 'createGroup': the ephemeral store after it, its answer, and whether
\* it called debouncedAutoSave
createGroup(eph, windowId, groupId, groupName, clock) ==
    LET windowData == getState(eph).windowData
        newGroupId == IF groupId # "" THEN groupId ELSE GroupIdAt(clock)
        name == IF groupName # "" THEN groupName ELSE "New Group"
        known == IF windowId \in DOMAIN windowData THEN windowData
                 ELSE Spread(windowData, Singleton(windowId, [groupNames |-> EmptyMap]))
    IN  IF windowId = 0 THEN [ephemeral |-> eph, ok |-> FALSE, saves |-> FALSE]
        ELSE IF newGroupId \notin DOMAIN known[windowId].groupNames
        THEN [ephemeral |-> setState(eph,
                  [windowData |-> [known EXCEPT ![windowId].groupNames =
                                      Spread(@, Singleton(newGroupId, name))]]),
              ok |-> TRUE, saves |-> TRUE]
        ELSE [ephemeral |-> eph, ok |-> FALSE, saves |-> FALSE]

\* the entries of tabGroupMap whose group is not groupId
Ungrouped(tabGroupMap, groupId) ==
    [t \in {u \in DOMAIN tabGroupMap : tabGroupMap[u] # groupId} |-> tabGroupMap[t]]

\* action 'deleteGroup' that leaves the tabs of the group mapped to it
deleteGroupKeepsTabs(eph, windowId, groupId) ==
    LET state == getState(eph)
    IN  IF groupId # "" /\ windowId # 0 /\ Registered(state.windowData, windowId, groupId)
        THEN [ephemeral |-> setState(eph,
                  [windowData |-> [state.windowData EXCEPT ![windowId].groupNames =
                                      Delete(@, groupId)],
                   tabGroupMap |-> state.tabGroupMap]),
              ok |-> TRUE, saves |-> TRUE]
        ELSE [ephemeral |-> eph, ok |-> FALSE, saves |-> FALSE]

\* action 'deleteGroup'
deleteGroup(eph, windowId, groupId) ==
    LET state == getState(eph)
    IN  IF groupId # "" /\ windowId # 0 /\ Registered(state.windowData, windowId, groupId)
        THEN [ephemeral |-> setState(eph,
                  [windowData |-> [state.windowData EXCEPT ![windowId].groupNames =
                                      Delete(@, groupId)],
                   tabGroupMap |-> Ungrouped(state.tabGroupMap, groupId)]),
              ok |-> TRUE, saves |-> TRUE]
        ELSE [ephemeral |-> eph, ok |-> FALSE, saves |-> FALSE]

\* the closing debouncedAutoSave() of a request that succeeded
ArmAutoSaveIf(saves) ==
    IF saves THEN ArmAutoSave ELSE UNCHANGED <<saveTimeout, timers>>

CreateGroupMsg(windowId, groupId, groupName) ==
    /\ LET r == createGroup(ephemeral, windowId, groupId, groupName, now)
       IN  /\ ephemeral' = r.ephemeral
           /\ ArmAutoSaveIf(r.saves)
           /\ last' = ReplyArg("createGroup", <<>>, r.ok,
                               [windowId |-> windowId, groupId |-> groupId,
                                groupName |-> groupName])
    /\ UNCHANGED <<local, windows, events, now, burst, running>>

DeleteGroupMsg(windowId, groupId) ==
    /\ LET r == deleteGroup(ephemeral, windowId, groupId)
       IN  /\ ephemeral' = r.ephemeral
           /\ ArmAutoSaveIf(r.saves)
           /\ last' = ReplyArg("deleteGroup", <<>>, r.ok,
                               [windowId |-> windowId, groupId |-> groupId])
    /\ UNCHANGED <<local, windows, events, now, burst, running>>

\* createGroup requests: no windowId, the open window with and without an id
\* and a name, a window that is not open
CreateGroupRequests ==
    {[windowId |-> 0, groupId |-> "g1", groupName |-> "Work"],
     [windowId |-> 1, groupId |-> "g1", groupName |-> ""],
     [windowId |-> 1, groupId |-> "g1", groupName |-> "Work"],
     [windowId |-> 1, groupId |-> "", groupName |-> "Work"],
     [windowId |-> 2, groupId |-> "g1", groupName |-> "Work"]}

\* deleteGroup requests: no windowId, no groupId, each id createGroup can have
\* registered, an id no window registers
DeleteGroupRequests ==
    {[windowId |-> 0, groupId |-> "g1"],
     [windowId |-> 1, groupId |-> ""],
     [windowId |-> 1, groupId |-> "g1"],
     [windowId |-> 1, groupId |-> "g2"],
     [windowId |-> 1, groupId |-> GroupIdAt(now)],
     [windowId |-> 2, groupId |-> "g1"]}

NextGroupAdmin ==
    \/ \E w \in DOMAIN windows : HostCreateTab(w, GroupPage, 0, Len(windows[w].tabs))
    \/ OnCreated
    \/ \E tabId \in OpenTabIds(windows), groupId \in GroupIds :
          UpdateMultipleTabGroupsMsg({tabId}, groupId)
    \/ \E m \in CreateGroupRequests : CreateGroupMsg(m.windowId, m.groupId, m.groupName)
    \/ \E m \in DeleteGroupRequests : DeleteGroupMsg(m.windowId, m.groupId)

SpecGroupAdmin == InitGroups /\ [][NextGroupAdmin]_vars

\* C22: createGroup with an id the window's groupNames holds answers
\* success:false and leaves the State Store as it was; with a fresh id it adds
\* that id with the given name, or 'New Group', and changes nothing else
C22_CreateGroup ==
    [][(last'.op = "createGroup" /\ last'.arg.windowId # 0) =>
          LET before == getState(ephemeral)
              after == getState(ephemeral')
              windowId == last'.arg.windowId
              groupId == IF last'.arg.groupId # "" THEN last'.arg.groupId ELSE GroupIdAt(now)
              name == IF last'.arg.groupName # "" THEN last'.arg.groupName ELSE "New Group"
          IN  IF Registered(before.windowData, windowId, groupId)
              THEN ~last'.ok /\ ephemeral' = ephemeral
              ELSE /\ last'.ok
                   /\ after.tabGroupMap = before.tabGroupMap
                   /\ DOMAIN after.windowData = DOMAIN before.windowData \cup {windowId}
                   /\ \A w \in DOMAIN before.windowData \ {windowId} :
                         after.windowData[w] = before.windowData[w]
                   /\ after.windowData[windowId].groupNames =
                         Spread(IF windowId \in DOMAIN before.windowData
                                THEN before.windowData[windowId].groupNames ELSE EmptyMap,
                                Singleton(groupId, name))]_vars

\* C22 witness: createGroup was refused for an id the window holds under
\* another name, while a tab is mapped to a group
C22_Witness ==
    /\ last.op = "createGroup"
    /\ ~last.ok
    /\ last.arg.windowId = 1 /\ last.arg.groupId = "g1" /\ last.arg.groupName = "Work"
    /\ Registered(getState(ephemeral).windowData, 1, "g1")
    /\ getState(ephemeral).windowData[1].groupNames["g1"] = "New Group"
    /\ getState(ephemeral).tabGroupMap # EmptyMap

\* C22 witness of the other case: a second group was added to a window under
\* the default name
C22_WitnessFresh ==
    /\ last.op = "createGroup"
    /\ last.ok
    /\ last.arg.groupName = ""
    /\ Cardinality(DOMAIN getState(ephemeral).windowData[last.arg.windowId].groupNames) = 2

\* C23: deleteGroup on a group the window registers removes it from that
\* window's groupNames and removes every TabGroupMap entry mapped to it, other
\* entries and other windows left alone; on an unknown window or group it
\* answers success:false and leaves the State Store as it was
C23_DeleteGroup ==
    [][last'.op = "deleteGroup" =>
          LET before == getState(ephemeral)
              after == getState(ephemeral')
              windowId == last'.arg.windowId
              groupId == last'.arg.groupId
          IN  IF windowId # 0 /\ groupId # "" /\ Registered(before.windowData, windowId, groupId)
              THEN /\ last'.ok
                   /\ ~Registered(after.windowData, windowId, groupId)
                   /\ \A t \in DOMAIN after.tabGroupMap : after.tabGroupMap[t] # groupId
                   /\ \A t \in DOMAIN before.tabGroupMap :
                         before.tabGroupMap[t] # groupId =>
                            Lookup(after.tabGroupMap, t) = before.tabGroupMap[t]
                   /\ DOMAIN after.tabGroupMap \subseteq DOMAIN before.tabGroupMap
                   /\ DOMAIN after.windowData = DOMAIN before.windowData
                   /\ \A w \in DOMAIN before.windowData \ {windowId} :
                         after.windowData[w] = before.windowData[w]
                   /\ after.windowData[windowId].groupNames =
                         Delete(before.windowData[windowId].groupNames, groupId)
              ELSE ~last'.ok /\ ephemeral' = ephemeral]_vars

\* C23 witness: a group with a tab was deleted while another tab stays in
\* another group
C23_Witness ==
    /\ last.op = "deleteGroup"
    /\ last.ok
    /\ last.arg.groupId = "g1"
    /\ \E t \in OpenTabIds(windows) : Lookup(getState(ephemeral).tabGroupMap, t) = "g2"
    /\ \E t \in OpenTabIds(windows) : Lookup(getState(ephemeral).tabGroupMap, t) = ""
    /\ Cardinality(OpenTabIds(windows)) = 3
    /\ Cardinality(DOMAIN getState(ephemeral).tabGroupMap) = 1

\* the index of the first session with the given id, 0 when there is none
FirstWithId(sessions, sessionId) ==
    LET matching == {i \in DOMAIN sessions : sessions[i].id = sessionId}
    IN  IF matching = {} THEN 0 ELSE CHOOSE i \in matching : \A j \in matching : i <= j

\* C24: a restoreSession request restores the stored session whose id is the
\* sessionId, or the session at index 0 when it has no sessionId; when no
\* stored session has the id, or none is stored, it answers success:false,
\* attempts no window or tab and leaves the stores as they were
C24_RestoreSelectsById ==
    [][(last'.op = "restoreSession" /\ last'.arg.detail.broken = "none") =>
          LET sessions == getStoredSessions(local)
              sessionId == last'.arg.detail.sessionId
              index == IF sessionId = "" THEN Min(1, Len(sessions))
                       ELSE FirstWithId(sessions, sessionId)
          IN  IF index = 0
              THEN /\ ~last'.ok
                   /\ last'.arg.responses = <<Failure>>
                   /\ last'.arg.detail.attempts = <<>>
                   /\ windows' = windows /\ events' = events
                   /\ ephemeral' = ephemeral /\ local' = local
              ELSE LET r == restoreSessionRun(ephemeral, windows, events,
                                              <<sessions[index]>>,
                                              last'.arg.detail.failing, "none")
                   IN  /\ last'.ok = ~r.threw
                       /\ last'.arg.detail.attempts = r.attempts
                       /\ windows' = r.windows /\ events' = r.events
                       /\ ephemeral' = r.ephemeral /\ local' = local]_vars

\* C24 witness: the request named the second stored session and its three
\* tabs were created
C24_Witness ==
    /\ last.op = "restoreSession"
    /\ last.ok
    /\ last.arg.detail.sessionId = "session-two"
    /\ Len(getStoredSessions(local)) = 2
    /\ getStoredSessions(local)[2].id = "session-two"
    /\ last.arg.detail.failing = {}
    /\ SumTabs(windows) = 4

\* C24 witness of the refusal: sessions are stored, none has the id
C24_WitnessNotFound ==
    /\ last.op = "restoreSession"
    /\ ~last.ok
    /\ last.arg.detail.sessionId = "session-none"
    /\ Len(getStoredSessions(local)) = 2
    /\ SumTabs(windows) = 1

\* C24 witness of the default: no sessionId, the session at index 0 restored
C24_WitnessMostRecent ==
    /\ last.op = "restoreSession"
    /\ last.ok
    /\ last.arg.detail.sessionId = ""
    /\ Len(getStoredSessions(local)) = 2
    /\ last.arg.detail.chosen = <<getStoredSessions(local)[1]>>
    /\ SumTabs(windows) = 4

(***************************************************************************)
(* Bursts of debouncedAutoSave calls one after another: calls come while a *)
(* timer is pending and after it has expired.  burst counts the calls      *)
(* since the last autoSaveSession run, and the runs.                       *)
(***************************************************************************)
\* a handler's debouncedAutoSave() call
DebounceCall ==
    /\ burst.calls < MaxBurst
    /\ ArmAutoSave
    /\ burst' = [burst EXCEPT !.calls = @ + 1]
    /\ last' = ReplyArg("debouncedAutoSave", <<>>, TRUE, [pending |-> timers])
    /\ UNCHANGED <<local, ephemeral, windows, events, now, running>>

\* an armed timer expires and runs autoSaveSession
DebounceTimerFires ==
    \E t \in timers :
        /\ burst.runs < MaxBurst
        /\ AutoSaveTimerFires(t)
        /\ burst' = [calls |-> 0, runs |-> burst.runs + 1,
                     byLast |-> burst.byLast /\ t = saveTimeout]

NextTimers == DebounceCall \/ DebounceTimerFires \/ Tick

SpecTimers == InitDebounce /\ [][NextTimers]_vars

\* C30: at most one auto-save timer is pending in every state, and a
\* debouncedAutoSave call leaves exactly the timer it armed
C30_AtMostOneTimerPending ==
    /\ Cardinality(timers) <= 1
    /\ last.op = "debouncedAutoSave" => timers = {saveTimeout}

\* C30 witness: debouncedAutoSave was called while the timer of an earlier call
\* was pending, after an earlier burst had ended in its run
C30_Witness ==
    /\ last.op = "debouncedAutoSave"
    /\ last.arg.pending # {}
    /\ burst.calls >= 2
    /\ burst.runs >= 1
    /\ timers # {}

(***************************************************************************)
(* The State Store handlers step by step.  Each handler awaits getState,   *)
(* changes its own copy of what it read, and awaits setState with that     *)
(* copy; the host serves the storage calls of different handlers in any    *)
(* order.  A handler takes its first step when it reads (everything up to  *)
(* its setState call runs in that step) and is then suspended, in running, *)
(* until the host performs its write; the code after the await (the        *)
(* closing debouncedAutoSave) runs in the step of the write.  missed notes *)
(* the TabGroupMap keys other handlers' writes changed in between; a       *)
(* handler that has run to its end stays in running, marked done.          *)
(***************************************************************************)
MaxRunning == 2        \* most handlers that suspend at an await in one race
MaxTabId == 3          \* most tab identifiers the host hands out in a race

\* a handler suspended at its await setState(write), having read the map seen
Suspended(op, tabIds, seen, write, arms) ==
    [op |-> op, tabIds |-> tabIds, seen |-> seen, write |-> write, arms |-> arms,
     missed |-> {}, done |-> FALSE]

\* tab identifiers a suspended handler is about to write
IdsInFlight(procs) ==
    UNION {p.tabIds \cup DOMAIN p.write.tabGroupMap : p \in {q \in procs : ~q.done}}

\* the identifier the host gives the next tab is not one a suspended handler
\* holds: the host never reuses the identifier of a tab
FreshTabId ==
    LET id == LeastFree(UsedTabIds(windows, getState(ephemeral).tabGroupMap, events))
    IN  id \notin IdsInFlight(running) /\ id <= MaxTabId

\* the host has a window identifier left for one more window
FreshWinId ==
    /\ Len(windows) < MaxWindows
    /\ LeastFree(UsedWinIds(windows, getState(ephemeral).windowData, events)) <= MaxWinId

\* the keys at which two maps differ
ChangedKeys(old, new) ==
    {k \in DOMAIN old \cup DOMAIN new : Lookup(old, k) # Lookup(new, k)}

Suspend(p) ==
    /\ Cardinality(running) < MaxRunning
    /\ p \notin running
    /\ running' = running \cup {p}

\* the tab-created listener from its getState to its setState call; without a
\* group for the new tab it writes nothing and runs to its end
OnCreatedReads ==
    /\ events # <<>> /\ Head(events).type = "created"
    /\ LET newTab == Head(events)
           tabGroupMap == getState(ephemeral).tabGroupMap
           r == onCreated(local, ephemeral, windows, newTab, now)
           openerGroupId == OpenerGroupId(tabGroupMap, windows, newTab)
       IN  /\ local' = r.local
           /\ IF openerGroupId # ""
              THEN /\ Suspend(Suspended("onCreated", {newTab.tabId}, tabGroupMap,
                                        [tabGroupMap |-> getState(r.ephemeral).tabGroupMap],
                                        TRUE))
                   /\ UNCHANGED <<saveTimeout, timers>>
              ELSE running' = running /\ ArmAutoSave
           /\ last' = ReplyArg("onCreated:getState", r.calls, TRUE,
                               [tabId |-> newTab.tabId, openerTabId |-> newTab.openerTabId])
    /\ events' = Tail(events)
    /\ UNCHANGED <<ephemeral, windows, now, burst>>

\* the tab-removed listener from its getState to its setState call
OnRemovedReads ==
    /\ events # <<>> /\ Head(events).type = "removed"
    /\ LET tabId == Head(events).tabId
           tabGroupMap == getState(ephemeral).tabGroupMap
       IN  /\ Suspend(Suspended("onRemoved", {tabId}, tabGroupMap,
                                [tabGroupMap |-> getState(onRemoved(ephemeral, tabId)).tabGroupMap],
                                TRUE))
           /\ last' = ReplyArg("onRemoved:getState", <<>>, TRUE, [tabId |-> tabId])
    /\ events' = Tail(events)
    /\ UNCHANGED <<local, ephemeral, windows, saveTimeout, timers, now, burst>>

\* action 'updateMultipleTabGroups' from its getState to its setState call
UpdateMultipleTabGroupsReads(tabIds, newGroupId) ==
    /\ Suspend(Suspended("updateMultipleTabGroups", tabIds, getState(ephemeral).tabGroupMap,
                         [tabGroupMap |-> getState(updateMultipleTabGroups(
                                              ephemeral, tabIds, newGroupId)).tabGroupMap],
                         TRUE))
    /\ last' = ReplyArg("updateMultipleTabGroups:getState", <<>>, TRUE, [tabIds |-> tabIds])
    /\ UNCHANGED <<local, ephemeral, windows, events, saveTimeout, timers, now, burst>>

\* action 'addTabToNewGroup' from its getState to its setState call
AddTabToNewGroupReads(windowId, tabId, groupId, groupName) ==
    /\ Suspend(Suspended("addTabToNewGroup", {tabId}, getState(ephemeral).tabGroupMap,
                         getState(addTabToNewGroup(ephemeral, windowId, tabId, groupId,
                                                   groupName)),
                         TRUE))
    /\ last' = ReplyArg("addTabToNewGroup:getState", <<>>, TRUE, [tabIds |-> {tabId}])
    /\ UNCHANGED <<local, ephemeral, windows, events, saveTimeout, timers, now, burst>>

\* action 'restoreSession' for the most recent session, from the getState of
\* restoreSession to its closing setState call: the windows and tabs are
\* created, the maps it built are not yet stored
RestoreSessionReads ==
    LET chosen == SessionToRestore(local, "")
    IN  /\ chosen # <<>> /\ ~restoreSessionThrows(chosen)
        /\ SumTabs(windows) + SumTabs(chosen[1].windows) <= MaxTabs
        /\ FreshTabId /\ FreshWinId
        /\ LET r == restoreSession(ephemeral, windows, events, chosen[1])
           IN  /\ windows' = r.windows
               /\ events' = r.events
               /\ Suspend(Suspended("restoreSession",
                                    OpenTabIds(r.windows) \ OpenTabIds(windows),
                                    getState(ephemeral).tabGroupMap,
                                    getState(r.ephemeral), FALSE))
        /\ last' = ReplyArg("restoreSession:getState", <<>>, TRUE, [tabIds |-> {}])
        /\ UNCHANGED <<local, ephemeral, saveTimeout, timers, now, burst>>

\* the host performs the chrome.storage.session.set of a suspended handler,
\* and the handler runs to its end
HandlerWrites(p) ==
    /\ p \in running /\ ~p.done
    /\ ephemeral' = setState(ephemeral, p.write)
    /\ running' = {IF q = p THEN [q EXCEPT !.done = TRUE]
                   ELSE IF q.done THEN q
                   ELSE [q EXCEPT !.missed = @ \cup ChangedKeys(
                                        getState(ephemeral).tabGroupMap,
                                        getState(ephemeral').tabGroupMap)] :
                      q \in running}
    /\ IF p.arms THEN ArmAutoSave ELSE UNCHANGED <<saveTimeout, timers>>
    /\ last' = ReplyArg(p.op \o ":setState", <<>>, TRUE,
                        [handler |-> p,
                         lost |-> {k \in p.missed :
                                     Lookup(getState(ephemeral).tabGroupMap, k)
                                        # Lookup(p.write.tabGroupMap, k)}])
    /\ UNCHANGED <<local, windows, events, now, burst>>

\* a stored session of one tab in a group
GroupedTabSession ==
    [id |-> "session-grouped", timestamp |-> 0, totalTabs |-> 1, windowCount |-> 1,
     windows |-> <<[tabs |-> <<SnapTab("https://a.example/", FALSE, "g1")>>,
                    groupNames |-> [g1 |-> "Work"]]>>,
     groupNames |-> [g1 |-> "Work"]]

InitMapRace ==
    /\ local = [sessions |-> <<GroupedTabSession>>]
    /\ ephemeral \in {EmptyMap,
                      [tabGroupMap |-> Singleton(1, "g1"),
                       windowData |-> Singleton(1, [groupNames |-> [g1 |-> "Work"]])]}
    /\ windows = <<[id |-> 1, tabs |-> <<[id |-> 1, url |-> GroupPage, pinned |-> FALSE]>>]>>
    /\ events = <<>>
    /\ saveTimeout = 0
    /\ timers = {}
    /\ now = 1
    /\ last = Did("init", <<>>)
    /\ burst = NoBurst
    /\ running = {}

NextMapRace ==
    \/ \E w \in DOMAIN windows :
          \E openerTabId \in {0} \cup {t.id : t \in Range(windows[w].tabs)} :
             FreshTabId /\ HostCreateTab(w, GroupPage, openerTabId, Len(windows[w].tabs))
    \/ \E tabId \in OpenTabIds(windows) : HostCloseTab(tabId)
    \/ OnCreatedReads
    \/ OnRemovedReads
    \/ \E tabId \in OpenTabIds(windows), groupId \in GroupIds :
          UpdateMultipleTabGroupsReads({tabId}, groupId)
    \/ \E windowId \in OpenWinIds(windows), tabId \in OpenTabIds(windows) :
          AddTabToNewGroupReads(windowId, tabId, "g2", "Work")
    \/ RestoreSessionReads
    \/ \E p \in running : HandlerWrites(p)

SpecMapRace == InitMapRace /\ [][NextMapRace]_vars

\* every handler has run to its end and no host event waits for its listener
Quiescent == events = <<>> /\ \A p \in running : p.done

\* C25: under any interleaving of the tab-created, tab-removed,
\* updateMultipleTabGroups, addTabToNewGroup and restoreSession handlers, once
\* all handlers have completed the stored TabGroupMap has no entry for a tab
\* that is no longer open
C25_NoStaleEntryWhenQuiescent ==
    Quiescent => DOMAIN getState(ephemeral).tabGroupMap \subseteq OpenTabIds(windows)

\* every value of the map is a group identifier and every key a tab identifier
WellFormedMap(tabGroupMap) ==
    \A k \in DOMAIN tabGroupMap :
        k \in Nat /\ k >= 1 /\ tabGroupMap[k] \in GroupIds

\* C27: when a handler writes after another handler's write changed the
\* TabGroupMap it had read (both read before either wrote), the later write
\* wins: every entry the earlier write changed and the later handler did not
\* touch is back at the value the later handler read, and the stored map is a
\* well-formed tab-to-group mapping
C27_LaterWriteWins ==
    [][\A p \in running :
          (/\ last'.op = p.op \o ":setState"
           /\ last'.arg.handler = p
           /\ p.missed # {}) =>
             LET stored == getState(ephemeral').tabGroupMap
             IN  /\ \A k \in p.missed \ p.tabIds : Lookup(stored, k) = Lookup(p.seen, k)
                 /\ WellFormedMap(stored)]_vars

\* C27 witness: a handler has written after another one's write, and the
\* entry the earlier write had stored is gone
C27_Witness ==
    /\ last.op = "updateMultipleTabGroups:setState"
    /\ \E k \in last.arg.lost \ last.arg.handler.tabIds :
          /\ Lookup(last.arg.handler.seen, k) = ""
          /\ Lookup(getState(ephemeral).tabGroupMap, k) = ""
          /\ k \in OpenTabIds(windows)
    /\ \E p \in running : p.done /\ p # last.arg.handler /\ p.missed = {}

(***************************************************************************)
(* The repository handlers step by step.  The tab-created listener decides *)
(* with shouldCreateNewSession, then createNewSession reads the stored     *)
(* list and the config, then it writes; an auto-save or a manual save      *)
(* collects and reads the list, then writes; updateSessionConfig writes    *)
(* the config, then reads the list, then writes the trimmed list.  The     *)
(* host serves the storage calls of different handlers in any order.       *)
(* seen is the stored list the handler worked from; raced marks a          *)
(* tab-created listener that decided while another one had decided and not *)
(* yet written.                                                            *)
(***************************************************************************)
Awaiting(op, pc, newTab, tabGroupMap, seen, write, config) ==
    [op |-> op, pc |-> pc, newTab |-> newTab, tabGroupMap |-> tabGroupMap,
     seen |-> seen, write |-> write, config |-> config, raced |-> FALSE, done |-> FALSE]

NoConfig == [maxSessions |-> 0]

\* the executions of op that have begun and not run to their end
InProgress(op) == {p \in running : p.op = op /\ ~p.done}

\* the tab-created listener up to the result of shouldCreateNewSession; when
\* it is false the listener runs to its end
OnCreatedDecides ==
    /\ events # <<>> /\ Head(events).type = "created"
    /\ LET newTab == Head(events)
           r == onCreated(local, ephemeral, windows, newTab, now)
           p == Awaiting("onCreated", "get", <<newTab>>, getState(ephemeral).tabGroupMap,
                         getStoredSessions(local), <<>>, NoConfig)
       IN  IF shouldCreateNewSession(local, windows)
           THEN /\ Cardinality(running) < MaxRunning
                /\ \A q \in running : q.newTab # <<newTab>>
                /\ running' = {IF q \in InProgress("onCreated")
                               THEN [q EXCEPT !.raced = TRUE] ELSE q : q \in running}
                                 \cup {[p EXCEPT !.raced = InProgress("onCreated") # {}]}
                /\ UNCHANGED <<ephemeral, saveTimeout, timers>>
           ELSE /\ ephemeral' = r.ephemeral
                /\ ArmAutoSave
                /\ running' = running
    /\ last' = ReplyArg("onCreated:decide", <<>>, TRUE, <<>>)
    /\ events' = Tail(events)
    /\ UNCHANGED <<local, windows, now, burst>>

\* collectSessionState and the reads of createNewSession in the tab-created
\* listener
CreateNewSessionReads(p) ==
    /\ p \in InProgress("onCreated") /\ p.pc = "get"
    /\ LET sessionState == collectSessionState(ephemeral, windows, now)
           write == getStoredSessions(createNewSession(local, sessionState, now))
       IN  running' = (running \ {p}) \cup {[p EXCEPT !.pc = "set", !.write = write]}
    /\ last' = ReplyArg("onCreated:get", <<>>, TRUE, <<>>)
    /\ UNCHANGED <<local, ephemeral, windows, events, saveTimeout, timers, now, burst>>

\* the timer callback: autoSaveSession up to the write of updateCurrentSession
AutoSaveReads(t) ==
    /\ t \in timers
    /\ timers' = timers \ {t}
    /\ LET sessionState == collectSessionState(ephemeral, windows, now)
           r == autoSaveSession(local, sessionState, now)
       IN  IF autoSaveSkips(sessionState) THEN running' = running
           ELSE Suspend(Awaiting("autoSaveSession", "set", <<>>, EmptyMap,
                                 getStoredSessions(local), getStoredSessions(r.store),
                                 NoConfig))
    /\ last' = ReplyArg("autoSaveSession:get", <<>>, TRUE, <<>>)
    /\ UNCHANGED <<local, ephemeral, windows, events, saveTimeout, now, burst>>

\* action 'saveSession' up to the write of updateCurrentSession
SaveSessionReads ==
    /\ LET sessionState == collectSessionState(ephemeral, windows, now)
           r == saveSession(local, sessionState, now)
       IN  IF ~r.ok THEN running' = running
           ELSE Suspend(Awaiting("saveSession", "set", <<>>, EmptyMap,
                                 getStoredSessions(local), getStoredSessions(r.store),
                                 NoConfig))
    /\ last' = ReplyArg("saveSession:get", <<>>, TRUE, <<>>)
    /\ UNCHANGED <<local, ephemeral, windows, events, saveTimeout, timers, now, burst>>

\* action 'updateSessionConfig': its write of the config
UpdateSessionConfigBegins(config) ==
    /\ local' = updateSessionConfigNoTrim(local, config)
    /\ Suspend(Awaiting("updateSessionConfig", "get", <<>>, EmptyMap, <<>>, <<>>, config))
    /\ last' = ReplyArg("updateSessionConfig:set", <<>>, TRUE, <<>>)
    /\ UNCHANGED <<ephemeral, windows, events, saveTimeout, timers, now, burst>>

\* action 'updateSessionConfig': its read of the stored list; with nothing to
\* trim it answers
UpdateSessionConfigReads(p) ==
    /\ p \in InProgress("updateSessionConfig") /\ p.pc = "get"
    /\ LET sessions == getStoredSessions(local)
       IN  running' = (running \ {p}) \cup
              {IF Len(sessions) > p.config.maxSessions
               THEN [p EXCEPT !.pc = "set", !.seen = sessions,
                              !.write = Slice(sessions, p.config.maxSessions)]
               ELSE [p EXCEPT !.seen = sessions, !.done = TRUE]}
    /\ last' = ReplyArg("updateSessionConfig:get", <<>>, TRUE, <<>>)
    /\ UNCHANGED <<local, ephemeral, windows, events, saveTimeout, timers, now, burst>>

\* the host performs the chrome.storage.local.set({ sessions }) of a handler,
\* and the handler runs to its end: the tab-created listener looks for the
\* group of the new tab, stores it and calls debouncedAutoSave
RepositoryWrites(p) ==
    /\ p \in running /\ ~p.done /\ p.pc = "set"
    /\ local' = Spread(local, [sessions |-> p.write])
    /\ running' = (running \ {p}) \cup {[p EXCEPT !.done = TRUE]}
    /\ IF p.op = "onCreated"
       THEN LET openerGroupId == OpenerGroupId(p.tabGroupMap, windows, p.newTab[1])
            IN  /\ ephemeral' =
                      IF openerGroupId # ""
                      THEN setState(ephemeral,
                               [tabGroupMap |-> Spread(p.tabGroupMap,
                                   Singleton(p.newTab[1].tabId, openerGroupId))])
                      ELSE ephemeral
                /\ ArmAutoSave
       ELSE UNCHANGED <<ephemeral, saveTimeout, timers>>
    /\ last' = ReplyArg(p.op \o ":set", <<>>, TRUE, p)
    /\ UNCHANGED <<windows, events, now, burst>>

SessionRaceStores ==
    {[sessions |-> <<RichSession, SmallSession>>], [sessions |-> <<SmallSession>>]}

\* the worker starts with the browser: the event of the first tab may still
\* wait for its listener
InitSessionRace ==
    /\ local \in SessionRaceStores
    /\ ephemeral = EmptyMap
    /\ windows = <<[id |-> 1, tabs |-> <<[id |-> 1, url |-> GroupPage, pinned |-> FALSE]>>]>>
    /\ events \in {<<>>, <<Event("created", 1, 0, 0, 1, "")>>}
    /\ saveTimeout = 0
    /\ timers = {}
    /\ now = 0
    /\ last = Did("init", <<>>)
    /\ burst = NoBurst
    /\ running = {}

NextSessionRace ==
    \/ \E w \in DOMAIN windows : HostCreateTab(w, GroupPage, 0, Len(windows[w].tabs))
    \/ OnCreatedDecides
    \/ \E p \in running : CreateNewSessionReads(p)
    \/ \E t \in timers : AutoSaveReads(t)
    \/ SaveSessionReads
    \/ UpdateSessionConfigBegins([maxSessions |-> 1])
    \/ \E p \in running : UpdateSessionConfigReads(p)
    \/ \E p \in running : RepositoryWrites(p)
    \/ Tick

SpecSessionRace == InitSessionRace /\ [][NextSessionRace]_vars

\* C26: at no time are two autoSaveSession executions in progress
C26_AutoSaveNotReentered ==
    Cardinality(InProgress("autoSaveSession")) <= 1

\* the identifiers of the sessions of a list
SessionIds(sessions) == {sessions[i].id : i \in DOMAIN sessions}

\* C28: when a tab-created listener that decided on a new session while
\* another one had decided and not yet written performs its write, the stored
\* list holds at most one session that was not in the list it decided on, and
\* still holds every session a single createNewSession would have kept
C28_RacingListenersAddOneSession ==
    [][\A p \in running :
          (/\ last'.op = "onCreated:set"
           /\ last'.arg = p
           /\ p.raced) =>
             LET new == getStoredSessions(local')
                 kept == Slice(p.seen, getSessionConfig(local).maxSessions - 1)
             IN  /\ Cardinality({i \in DOMAIN new : new[i].id \notin SessionIds(p.seen)}) <= 1
                 /\ SessionIds(kept) \subseteq SessionIds(new)]_vars

\* C29: once updateCurrentSession, createNewSession and updateSessionConfig
\* have all completed, the stored list is no longer than the stored
\* maxSessions
C29_LengthWithinMaxWhenQuiescent ==
    Quiescent => Len(getStoredSessions(local)) <= getSessionConfig(local).maxSessions

(***************************************************************************)
(* The tab listeners under host failures.  broken names the host call the  *)
(* host rejects while the listener runs ("none" for no failure).  The      *)
(* tab-created listener catches a failure of collectSessionState or        *)
(* createNewSession and of chrome.tabs.query; getState,                    *)
(* shouldCreateNewSession and setState are awaited outside any try block,  *)
(* so their rejection ends the listener before its debouncedAutoSave().    *)
(***************************************************************************)
\* open tabs while the listeners are exercised under host failures
MaxListenerTabs == 2

ListenerFailures ==
    {"none", "getState", "shouldCreateNewSession", "createNewSession", "query", "setState"}

\* the tab-created listener under a host failure: the stores after it, and
\* whether it reached its closing debouncedAutoSave()
onCreatedUnder(store, eph, wins, newTab, clock, broken) ==
    LET tabGroupMap == getState(eph).tabGroupMap
        create == shouldCreateNewSession(store, wins)
        sessionState == collectSessionState(eph, wins, clock)
        created == IF create /\ broken # "createNewSession"
                   THEN createNewSession(store, sessionState, clock) ELSE store
        byOpener == IF newTab.openerTabId # 0
                    THEN Lookup(tabGroupMap, newTab.openerTabId) ELSE ""
        queries == byOpener = "" /\ newTab.index > 0
        openerGroupId == IF queries /\ broken = "query" THEN ""
                         ELSE OpenerGroupId(tabGroupMap, wins, newTab)
    IN  IF broken \in {"getState", "shouldCreateNewSession"}
        THEN [local |-> store, ephemeral |-> eph, armed |-> FALSE]
        ELSE IF openerGroupId # "" /\ broken = "setState"
        THEN [local |-> created, ephemeral |-> eph, armed |-> FALSE]
        ELSE [local |-> created,
              ephemeral |-> IF openerGroupId # ""
                            THEN setState(eph, [tabGroupMap |->
                                     Spread(tabGroupMap, Singleton(newTab.tabId, openerGroupId))])
                            ELSE eph,
              armed |-> TRUE]

\* the tab-removed listener under a host failure
onRemovedUnder(eph, tabId, broken) ==
    IF broken \in {"getState", "setState"}
    THEN [ephemeral |-> eph, armed |-> FALSE]
    ELSE [ephemeral |-> onRemoved(eph, tabId), armed |-> TRUE]

OnCreatedUnder(broken) ==
    /\ events # <<>> /\ Head(events).type = "created"
    /\ LET r == onCreatedUnder(local, ephemeral, windows, Head(events), now, broken)
       IN  /\ local' = r.local
           /\ ephemeral' = r.ephemeral
           /\ ArmAutoSaveIf(r.armed)
           /\ last' = ReplyArg("onCreated", <<>>, r.armed,
                               [tabId |-> Head(events).tabId, broken |-> broken])
    /\ events' = Tail(events)
    /\ UNCHANGED <<windows, now, burst, running>>

OnRemovedUnder(broken) ==
    /\ events # <<>> /\ Head(events).type = "removed"
    /\ LET r == onRemovedUnder(ephemeral, Head(events).tabId, broken)
       IN  /\ ephemeral' = r.ephemeral
           /\ ArmAutoSaveIf(r.armed)
           /\ last' = ReplyArg("onRemoved", <<>>, r.armed,
                               [tabId |-> Head(events).tabId, broken |-> broken])
    /\ events' = Tail(events)
    /\ UNCHANGED <<local, windows, now, burst, running>>

InitListeners ==
    /\ local \in {EmptyMap, [sessions |-> <<SmallSession>>]}
    /\ ephemeral \in {EmptyMap,
                      [tabGroupMap |-> Singleton(1, "g1"),
                       windowData |-> Singleton(1, [groupNames |-> [g1 |-> "Work"]])]}
    /\ windows = <<[id |-> 1, tabs |-> <<[id |-> 1, url |-> GroupPage, pinned |-> FALSE]>>]>>
    /\ events = <<>>
    /\ saveTimeout = 0
    /\ timers = {}
    /\ now = 1
    /\ last = Did("init", <<>>)
    /\ burst = NoBurst
    /\ running = {}

NextListeners ==
    \/ \E w \in DOMAIN windows :
          \E openerTabId \in {0} \cup {t.id : t \in Range(windows[w].tabs)} :
             /\ SumTabs(windows) < MaxListenerTabs
             /\ LeastFree(UsedTabIds(windows, getState(ephemeral).tabGroupMap, events)) <= MaxTabId
             /\ HostCreateTab(w, GroupPage, openerTabId, Len(windows[w].tabs))
    \/ \E tabId \in OpenTabIds(windows) : HostCloseTab(tabId)
    \/ \E tabId \in OpenTabIds(windows), changed \in {"url", "title", "status"},
          url \in Urls : HostUpdateTab(tabId, changed, url)
    \/ \E tabId \in OpenTabIds(windows), pos \in 0..MaxTabs : HostMoveTab(tabId, pos)
    \/ \E broken \in ListenerFailures : OnCreatedUnder(broken)
    \/ \E broken \in {"none", "getState", "setState"} : OnRemovedUnder(broken)
    \/ OnUpdated
    \/ OnMoved
    \/ TimerFires

\* an armed timer expires
SpecListeners == InitListeners /\ [][NextListeners]_vars /\ WF_vars(TimerFires)

\* the listener of the event at the head of the queue should arm the timer
Arming(event) ==
    event.type \in {"created", "removed", "moved"}
       \/ (event.type = "updated" /\ event.changed \in {"url", "title"})

\* C31: every tab-created, tab-removed and tab-moved listener run, and every
\* tab-updated run for a url or title change, leaves the auto-save timer
\* armed, also when a host call inside the listener fails, and an auto-save
\* run follows; a tab-updated run for another change leaves the timer alone
C31_EveryEventArmsTheTimer ==
    /\ [][(last'.op \in {"onCreated", "onRemoved", "onUpdated", "onMoved"}) =>
             IF Arming(Head(events))
             THEN timers' = {saveTimeout'}
             ELSE timers' = timers /\ saveTimeout' = saveTimeout]_vars
    /\ ((last.op \in {"onCreated", "onRemoved", "onMoved"}) ~> (last.op = "autoSaveSession"))

\* the listeners arm the timer whenever no host call rejects outside a try
\* block
ListenersArmWhenNothingEscapes ==
    [][(/\ last'.op \in {"onCreated", "onRemoved", "onUpdated", "onMoved"}
        /\ (last'.op \in {"onCreated", "onRemoved"} =>
               last'.arg.broken \in {"none", "createNewSession", "query"})) =>
          IF Arming(Head(events))
          THEN timers' = {saveTimeout'}
          ELSE timers' = timers /\ saveTimeout' = saveTimeout]_vars

\* the step was a restoreSession run on a session with windows, every state
\* store call served
RestoredStep(op, arg) ==
    /\ RestoreStep(op, arg)
    /\ ~restoreSessionThrows(arg.detail.chosen)

\* C33: restoreSession writes the State Store once, after the last window, and
\* the written TabGroupMap maps every created tab whose snapshot groupId is
\* not 'ungrouped' to that groupId, has no entry for a created tab whose
\* snapshot groupId is 'ungrouped', and keeps every earlier entry
C33_RestoreWritesGroupsOnce ==
    [][RestoredStep(last'.op, last'.arg) =>
          LET session == last'.arg.detail.chosen[1]
              made == SelectSeq(last'.arg.detail.attempts, LAMBDA a : a.ok)
              created == SubSeq(events', Len(events) + 1, Len(events'))
              old == getState(ephemeral).tabGroupMap
              new == getState(ephemeral').tabGroupMap
          IN  /\ last'.arg.detail.wrote
              /\ ephemeral' = setState(ephemeral, [tabGroupMap |-> new,
                                                   windowData |-> getState(ephemeral').windowData])
              /\ Len(created) = Len(made)
              /\ \A k \in DOMAIN made :
                    LET snap == session.windows[made[k].window].tabs[made[k].tab]
                        id == created[k].tabId
                    IN  /\ id \in OpenTabIds(windows') \ OpenTabIds(windows)
                        /\ IF snap.groupId = "ungrouped"
                           THEN id \notin DOMAIN new
                           ELSE id \in DOMAIN new /\ new[id] = snap.groupId
              /\ \A t \in DOMAIN old : t \in DOMAIN new /\ new[t] = old[t]
              /\ DOMAIN new \subseteq DOMAIN old \cup {created[k].tabId : k \in DOMAIN created}]_vars

\* C33 witness: three tabs were restored, one of them 'ungrouped', while tab 1
\* was already mapped; the map gained the two grouped tabs
C33_Witness ==
    /\ last.op = "restoreSession()"
    /\ last.ok
    /\ last.arg.detail.chosen = <<ThreeTabSession>>
    /\ last.arg.detail.failing = {}
    /\ Cardinality(DOMAIN getState(ephemeral).tabGroupMap) = 3
    /\ 1 \in DOMAIN getState(ephemeral).tabGroupMap
    /\ SumTabs(windows) = 4

\* C34: every window restoreSession creates gets as groupNames the union of
\* the session-wide names and the window snapshot's names, the snapshot's name
\* stored where both name a group; the entries of earlier windows are unchanged
C34_RestoredWindowNames ==
    [][RestoredStep(last'.op, last'.arg) =>
          LET session == last'.arg.detail.chosen[1]
              made == SelectSeq(last'.arg.detail.attempts,
                                LAMBDA a : a.ok /\ a.kind = "window")
              old == getState(ephemeral).windowData
              new == getState(ephemeral').windowData
          IN  /\ Len(windows') = Len(windows) + Len(made)
              /\ \A k \in DOMAIN made :
                    LET snap == session.windows[made[k].window].groupNames
                        id == windows'[Len(windows) + k].id
                    IN  /\ id \notin DOMAIN old
                        /\ id \in DOMAIN new
                        /\ DOMAIN new[id].groupNames = DOMAIN session.groupNames \cup DOMAIN snap
                        /\ \A g \in DOMAIN new[id].groupNames :
                              new[id].groupNames[g] =
                                 IF g \in DOMAIN snap THEN snap[g] ELSE session.groupNames[g]
              /\ \A w \in DOMAIN old : w \in DOMAIN new /\ new[w] = old[w]]_vars

\* C34 witness: a session whose first window names g1 "Home" while the session
\* names it "Work" was restored next to a window that had names of its own
C34_Witness ==
    /\ last.op = "restoreSession()"
    /\ last.ok
    /\ last.arg.detail.chosen = <<RenamedSession>>
    /\ last.arg.detail.failing = {}
    /\ Len(windows) = 3
    /\ 1 \in DOMAIN getState(ephemeral).windowData
    /\ getState(ephemeral).windowData[windows[2].id].groupNames = [g1 |-> "Home", g2 |-> "Play"]
    /\ getState(ephemeral).windowData[windows[3].id].groupNames = [g1 |-> "Work", g2 |-> "Play"]
    /\ getState(ephemeral).windowData[1].groupNames = [g1 |-> "Work"]

(***************************************************************************)
(* Group requests with two windows open.  A group id can be registered in  *)
(* both windows: createGroup takes the id from the request, and a restore  *)
(* copies the session-wide names into every window it creates.             *)
(***************************************************************************)
\* action 'updateGroupName': the ephemeral store after it, its answer, and
\* whether it called debouncedAutoSave
updateGroupName(eph, windowId, groupId, groupName) ==
    LET windowData == getState(eph).windowData
    IN  IF groupId # "" /\ groupName # "" /\ windowId # 0
        THEN IF windowId \in DOMAIN windowData
             THEN [ephemeral |-> setState(eph,
                       [windowData |-> [windowData EXCEPT ![windowId].groupNames =
                                           Spread(@, Singleton(groupId, groupName))]]),
                   ok |-> TRUE, saves |-> TRUE]
             ELSE [ephemeral |-> eph, ok |-> FALSE, saves |-> FALSE]
        ELSE [ephemeral |-> eph, ok |-> FALSE, saves |-> FALSE]

UpdateGroupNameMsg(windowId, groupId, groupName) ==
    /\ LET r == updateGroupName(ephemeral, windowId, groupId, groupName)
       IN  /\ ephemeral' = r.ephemeral
           /\ ArmAutoSaveIf(r.saves)
           /\ last' = ReplyArg("updateGroupName", <<>>, r.ok,
                               [windowId |-> windowId, groupId |-> groupId,
                                groupName |-> groupName])
    /\ UNCHANGED <<local, windows, events, now, burst, running>>

\* two windows of one tab each, nothing grouped or both tabs in a group g1
\* that both windows register
InitGroupWindows ==
    /\ local = [sessions |-> <<SmallSession>>]
    /\ ephemeral \in {EmptyMap,
                      [tabGroupMap |-> Spread(Singleton(1, "g1"), Singleton(2, "g1")),
                       windowData |-> Spread(Singleton(1, [groupNames |-> [g1 |-> "Work"]]),
                                             Singleton(2, [groupNames |-> [g1 |-> "Work"]]))]}
    /\ windows = <<[id |-> 1, tabs |-> <<[id |-> 1, url |-> GroupPage, pinned |-> FALSE]>>],
                   [id |-> 2, tabs |-> <<[id |-> 2, url |-> GroupPage, pinned |-> FALSE]>>]>>
    /\ events = <<>>
    /\ saveTimeout = 0
    /\ timers = {}
    /\ now = 1
    /\ last = Did("init", <<>>)
    /\ burst = NoBurst
    /\ running = {}

NextGroupWindows ==
    \/ \E tabId \in OpenTabIds(windows), groupId \in GroupIds :
          UpdateMultipleTabGroupsMsg({tabId}, groupId)
    \/ \E windowId \in OpenWinIds(windows), groupId \in GroupIds :
          CreateGroupMsg(windowId, groupId, "Work")
    \/ \E windowId \in OpenWinIds(windows), groupId \in GroupIds :
          DeleteGroupMsg(windowId, groupId)
    \/ \E windowId \in 0..MaxWinId, groupId \in GroupIds \cup {""}, groupName \in {"", "Home"} :
          UpdateGroupNameMsg(windowId, groupId, groupName)

SpecGroupWindows == InitGroupWindows /\ [][NextGroupWindows]_vars

\* C36: updateGroupName with a groupId the window's groupNames does not hold
\* answers success:false and leaves WindowData as it was
C36_RenameUnknownGroupFails ==
    [][(/\ last'.op = "updateGroupName"
        /\ last'.arg.windowId # 0 /\ last'.arg.groupId # "" /\ last'.arg.groupName # ""
        /\ ~Registered(getState(ephemeral).windowData,
                       last'.arg.windowId, last'.arg.groupId)) =>
          /\ ~last'.ok
          /\ getState(ephemeral').windowData = getState(ephemeral).windowData]_vars

\* updateGroupName renames a group the window registers, and refuses a window
\* without an entry
RenameKnownGroup ==
    [][last'.op = "updateGroupName" =>
          LET before == getState(ephemeral).windowData
              after == getState(ephemeral').windowData
              windowId == last'.arg.windowId
              groupId == last'.arg.groupId
          IN  /\ (last'.arg.groupName # "" /\ Registered(before, windowId, groupId) /\ groupId # "") =>
                    /\ last'.ok
                    /\ after[windowId].groupNames[groupId] = last'.arg.groupName
                    /\ DOMAIN after[windowId].groupNames = DOMAIN before[windowId].groupNames
              /\ windowId \notin DOMAIN before => ~last'.ok /\ ephemeral' = ephemeral]_vars

\* the tabs open in other windows than windowId
TabsOutside(wins, windowId) ==
    {t.id : t \in UNION {Range(wins[w].tabs) : w \in {v \in DOMAIN wins : wins[v].id # windowId}}}

\* C38: deleteGroup(windowId, groupId) leaves the TabGroupMap entry of every
\* tab of another window, and the groupNames of every other window, as they
\* were
C38_DeleteGroupStaysInWindow ==
    [][last'.op = "deleteGroup" =>
          LET before == getState(ephemeral)
              after == getState(ephemeral')
          IN  /\ \A t \in TabsOutside(windows, last'.arg.windowId) :
                    Lookup(after.tabGroupMap, t) = Lookup(before.tabGroupMap, t)
              /\ \A w \in DOMAIN before.windowData \ {last'.arg.windowId} :
                    w \in DOMAIN after.windowData
                       /\ after.windowData[w] = before.windowData[w]]_vars

\* deleteGroup leaves the groupNames of every other window as they were
DeleteGroupKeepsOtherNames ==
    [][last'.op = "deleteGroup" =>
          \A w \in DOMAIN getState(ephemeral).windowData \ {last'.arg.windowId} :
             w \in DOMAIN getState(ephemeral').windowData
                /\ getState(ephemeral').windowData[w] = getState(ephemeral).windowData[w]]_vars

(***************************************************************************)
(* Auto-save runs under host failures.  broken names the host call the     *)
(* host rejects during the run: a call of collectSessionState, the read of *)
(* the stored sessions, or the write of the session list.  The whole body  *)
(* of autoSaveSession is inside one try block whose catch only logs.       *)
(***************************************************************************)
AutoSaveFailures == {"none", "collectSessionState", "getStoredSessions", "set"}

\* autoSaveSession whose catch block calls debouncedAutoSave again
autoSaveSessionUnderRetrying(store, sessionState, clock, broken) ==
    LET failed == \/ broken = "collectSessionState"
                  \/ (broken # "none" /\ ~autoSaveSkips(sessionState))
    IN  IF failed
        THEN [store |-> store, calls |-> <<>>, failed |-> TRUE, rearms |-> TRUE]
        ELSE [store |-> autoSaveSession(store, sessionState, clock).store,
              calls |-> autoSaveSession(store, sessionState, clock).calls,
              failed |-> FALSE, rearms |-> FALSE]

\* autoSaveSession under a host failure: the durable store after the run,
\* whether the rejected call was reached, and whether the run called
\* debouncedAutoSave
autoSaveSessionUnder(store, sessionState, clock, broken) ==
    LET failed == \/ broken = "collectSessionState"
                  \/ (broken # "none" /\ ~autoSaveSkips(sessionState))
    IN  IF failed
        THEN [store |-> store, calls |-> <<>>, failed |-> TRUE, rearms |-> FALSE]
        ELSE [store |-> autoSaveSession(store, sessionState, clock).store,
              calls |-> autoSaveSession(store, sessionState, clock).calls,
              failed |-> FALSE, rearms |-> FALSE]

\* a handler calls debouncedAutoSave()
SaveCall ==
    /\ burst.calls < MaxBurst
    /\ burst.runs < MaxBurst
    /\ ArmAutoSave
    /\ burst' = [burst EXCEPT !.calls = @ + 1]
    /\ last' = ReplyArg("debouncedAutoSave", <<>>, TRUE,
                        [pending |-> timers,
                         afterFailure |-> last.op = "autoSaveSession" /\ ~last.ok])
    /\ UNCHANGED <<local, ephemeral, windows, events, now, running>>

\* an armed timer expires and autoSaveSession runs, the host rejecting broken
AutoSaveRunUnder(t, broken) ==
    /\ t \in timers
    /\ LET r == autoSaveSessionUnder(local, collectSessionState(ephemeral, windows, now),
                                     now, broken)
           left == timers \ {t}
           d == debouncedAutoSave(saveTimeout, left)
       IN  /\ local' = r.store
           /\ timers' = IF r.rearms THEN d.timers ELSE left
           /\ saveTimeout' = IF r.rearms THEN d.saveTimeout ELSE saveTimeout
           /\ last' = ReplyArg("autoSaveSession", r.calls, ~r.failed,
                               [broken |-> broken, fired |-> t])
    /\ burst' = [calls |-> 0, runs |-> burst.runs + 1, byLast |-> burst.byLast /\ t = saveTimeout]
    /\ UNCHANGED <<ephemeral, windows, events, now, running>>

AutoSaveRuns == \E t \in timers, broken \in AutoSaveFailures : AutoSaveRunUnder(t, broken)

NextSaveFailures == SaveCall \/ AutoSaveRuns \/ Tick

\* an armed timer expires
SpecSaveFailures == InitDebounce /\ [][NextSaveFailures]_vars /\ WF_vars(AutoSaveRuns)

\* C35: an auto-save run in which a host call fails leaves the stored
\* sessions as they were and arms no timer; a debouncedAutoSave call after it
\* arms a timer, and an auto-save run follows
C35_FailedAutoSaveIsSwallowed ==
    /\ [][(last'.op = "autoSaveSession" /\ ~last'.ok) =>
             /\ local' = local
             /\ timers' = timers \ {last'.arg.fired}
             /\ saveTimeout' = saveTimeout]_vars
    /\ [][(last'.op = "debouncedAutoSave" /\ last'.arg.afterFailure) =>
             timers' = {saveTimeout'}]_vars
    /\ ((last.op = "debouncedAutoSave" /\ last.arg.afterFailure)
           ~> (last.op = "autoSaveSession"))

\* C35 witness: debouncedAutoSave was called right after a run that failed,
\* and its timer is pending
C35_Witness ==
    /\ last.op = "debouncedAutoSave"
    /\ last.arg.afterFailure
    /\ last.arg.pending = {}
    /\ timers = {saveTimeout}
    /\ burst.runs >= 1

\* C35 witness of the failed run: the write of a run with restorable tabs was
\* rejected, nothing is stored and no timer is pending
C35_WitnessFailed ==
    /\ last.op = "autoSaveSession"
    /\ ~last.ok
    /\ last.arg.broken = "set"
    /\ timers = {}
    /\ local = EmptyMap

(***************************************************************************)
(* Snapshots of two windows with grouped tabs: window 1 holds one or two   *)
(* tabs, window 2 one tab, any of them on a page that cannot be restored.  *)
(***************************************************************************)
SnapshotUrls == {"https://a.example/", "chrome://newtab/", "about:blank"}

SnapshotHosts ==
    {<<[id |-> 1, tabs |-> tabs],
       [id |-> 2, tabs |-> <<[id |-> 3, url |-> u3, pinned |-> FALSE]>>]>> :
        tabs \in {ts \in UNION {[1..n -> [id : 1..2, url : SnapshotUrls, pinned : {FALSE}]] :
                                  n \in 1..2} :
                    \A i \in DOMAIN ts : ts[i].id = i},
        u3 \in SnapshotUrls}

InitSnapshots ==
    /\ local = EmptyMap
    /\ windows \in SnapshotHosts
    /\ ephemeral = EmptyMap
    /\ events = <<>>
    /\ saveTimeout = 0
    /\ timers = {}
    /\ now = 1
    /\ last = Did("init", <<>>)
    /\ burst = NoBurst
    /\ running = {}

NextSnapshots ==
    \/ CollectSessionStateCall
    \/ SaveSessionMsg
    \/ \E tabId \in OpenTabIds(windows), groupId \in GroupIds :
          UpdateMultipleTabGroupsMsg({tabId}, groupId)

SpecSnapshots == InitSnapshots /\ [][NextSnapshots]_vars

\* the tabs of a window that can be restored, in order
RestorableTabs(tabs) == SelectSeq(tabs, LAMBDA t : isRestorableUrl(t.url))

\* C37: the snapshot collectSessionState gives holds a window for each open
\* window with a restorable tab, in order, and no other; each holds exactly
\* the restorable tabs of its window, each with groupId = its TabGroupMap
\* entry, or 'ungrouped' when it has none
C37_SnapshotWindowsAndGroups ==
    last.op = "collectSessionState" =>
        LET tabGroupMap == getState(ephemeral).tabGroupMap
            kept == SelectSeq(windows, LAMBDA w : RestorableTabs(w.tabs) # <<>>)
            snapshot == last.arg.windows
        IN  /\ Len(snapshot) = Len(kept)
            /\ \A w \in DOMAIN snapshot :
                  LET tabs == RestorableTabs(kept[w].tabs)
                  IN  /\ snapshot[w].tabs # <<>>
                      /\ Len(snapshot[w].tabs) = Len(tabs)
                      /\ \A i \in DOMAIN tabs :
                            /\ snapshot[w].tabs[i].url = tabs[i].url
                            /\ snapshot[w].tabs[i].pinned = tabs[i].pinned
                            /\ snapshot[w].tabs[i].groupId =
                                  IF tabs[i].id \in DOMAIN tabGroupMap
                                  THEN tabGroupMap[tabs[i].id] ELSE "ungrouped"

\* C37 witness: window 1 holds only a chrome:// tab and a second tab on
\* about:blank, window 2 a grouped tab; the snapshot holds window 2 alone
C37_Witness ==
    /\ last.op = "collectSessionState"
    /\ Len(windows[1].tabs) = 2
    /\ Len(last.arg.windows) = 1
    /\ last.arg.windows[1].tabs = <<SnapTab("https://a.example/", FALSE, "g2")>>
    /\ Lookup(getState(ephemeral).tabGroupMap, 1) = "g1"

\* C37 witness of a kept window: window 1 is in the snapshot with its one
\* restorable tab, 'ungrouped', while its other tab is dropped
C37_WitnessPartial ==
    /\ last.op = "collectSessionState"
    /\ Len(last.arg.windows) = 2
    /\ Len(windows[1].tabs) = 2
    /\ last.arg.windows[1].tabs = <<SnapTab("https://a.example/", FALSE, "ungrouped")>>
    /\ getState(ephemeral).tabGroupMap # EmptyMap

(***************************************************************************)
(* Migration step by step.  migrateFromOldStorage is registered for        *)
(* onStartup and for onInstalled; a run reads the legacy keys and the      *)
(* sessions key, then awaits the write of the one migrated session, then   *)
(* the removal of the legacy keys.  Saves of the tab listeners and of the  *)
(* UI land between these steps.                                            *)
(***************************************************************************)
\* the migration run numbered run, suspended before the step pc; migrated
\* holds the session it built from what it read
Migrating(run, pc, migrated) ==
    [op |-> "migrateFromOldStorage", run |-> run, pc |-> pc, migrated |-> migrated]

\* the two chrome.storage.local.get calls and the test on what they gave
MigrateReads ==
    /\ Cardinality(running) < MaxRunning
    /\ running' = running \cup
          {IF migrates(local)
           THEN Migrating(Cardinality(running) + 1, "set", <<MigratedSession(local, now)>>)
           ELSE Migrating(Cardinality(running) + 1, "done", <<>>)}
    /\ last' = ReplyArg("migrateFromOldStorage:get", <<>>, TRUE, [migrates |-> migrates(local)])
    /\ UNCHANGED <<local, ephemeral, windows, events, saveTimeout, timers, now, burst>>

\* chrome.storage.local.set({ sessions: [migratedSession] })
MigrateSets(p) ==
    /\ p \in running /\ p.pc = "set"
    /\ local' = Spread(local, [sessions |-> p.migrated])
    /\ running' = (running \ {p}) \cup {Migrating(p.run, "remove", p.migrated)}
    /\ last' = ReplyArg("migrateFromOldStorage:set", <<>>, TRUE,
                        [migrates |-> "sessions" \in DOMAIN local])
    /\ UNCHANGED <<ephemeral, windows, events, saveTimeout, timers, now, burst>>

\* chrome.storage.local.remove(['savedSession', 'lastSaved'])
MigrateRemoves(p) ==
    /\ p \in running /\ p.pc = "remove"
    /\ local' = Delete(Delete(local, "savedSession"), "lastSaved")
    /\ running' = (running \ {p}) \cup {Migrating(p.run, "done", p.migrated)}
    /\ last' = ReplyArg("migrateFromOldStorage:remove", <<>>, TRUE, [migrates |-> TRUE])
    /\ UNCHANGED <<ephemeral, windows, events, saveTimeout, timers, now, burst>>

\* a save of a listener or of the UI, complete between two steps of a migration
SaveBetween(sessionState) ==
    /\ \/ local' = createNewSession(local, sessionState, now)
          /\ last' = ReplyArg("createNewSession", <<"createNewSession">>, TRUE, [migrates |-> FALSE])
       \/ local' = updateCurrentSession(local, sessionState, now)
          /\ last' = ReplyArg("updateCurrentSession", updateCurrentSessionCalls(local), TRUE,
                              [migrates |-> FALSE])
    /\ UNCHANGED <<ephemeral, windows, events, saveTimeout, timers, now, burst, running>>

InitMigrateRace ==
    /\ local \in LegacyStores
    /\ ephemeral = EmptyMap
    /\ windows = <<>>
    /\ events = <<>>
    /\ saveTimeout = 0
    /\ timers = {}
    /\ now = 0
    /\ last = Did("init", <<>>)
    /\ burst = NoBurst
    /\ running = {}

NextMigrateRace ==
    \/ MigrateReads
    \/ \E p \in running : MigrateSets(p)
    \/ \E p \in running : MigrateRemoves(p)
    \/ \E sessionState \in RepoSnapshots : SaveBetween(sessionState)
    \/ Tick

SpecMigrateRace == InitMigrateRace /\ [][NextMigrateRace]_vars

\* C39: the write of a migration run discards no stored session: every
\* session a save stored before the write is still stored after it
C39_MigrationKeepsSavedSessions ==
    [][last'.op = "migrateFromOldStorage:set" =>
          \A i \in DOMAIN getStoredSessions(local) :
             \E j \in DOMAIN getStoredSessions(local') :
                getStoredSessions(local')[j] = getStoredSessions(local)[i]]_vars

\* with no save between its steps a migration run leaves what
\* migrateFromOldStorage leaves
MigrationAloneIsAtomic ==
    [][(last'.op = "migrateFromOldStorage:remove" /\ last.op = "migrateFromOldStorage:set") =>
          /\ "savedSession" \notin DOMAIN local'
          /\ Len(getStoredSessions(local')) = 1]_vars

\* C40: the ids of the stored sessions are pairwise distinct
C40_SessionIdsDistinct ==
    \A i, j \in DOMAIN getStoredSessions(local) :
       getStoredSessions(local)[i].id = getStoredSessions(local)[j].id => i = j

====
